---- MODULE Spec2Model ----
(***************************************************************************)
(* Transactional core of the transport backend: ticket sales (vender,      *)
(* venderInstantaneo), shipment registration (registrar), the shipment     *)
(* lifecycle (cambiarEstado, retirar), the day-scoped code allocators and  *)
(* the post-commit invoice emission.                                       *)
(*                                                                         *)
(* Requests run concurrently. Each request is a process with a program     *)
(* counter; it advances one database round-trip at a time. Statements      *)
(* issued through a Prisma interactive transaction run under PostgreSQL    *)
(* READ COMMITTED: reads see the committed tables, writes are staged in    *)
(* the process until the commit, an UPDATE holds its row lock until the    *)
(* commit, an INSERT of a unique key waits for a pending INSERT of the     *)
(* same key and fails if that one committed.                               *)
(*                                                                         *)
(* Money is counted in cents (DECIMAL(10,2) columns).                      *)
(***************************************************************************)
EXTENDS Integers, Sequences, FiniteSets, TLC

(* ------------------------------ bounds --------------------------------- *)
NumProcs == 2
MaxEncomiendas == 1
MaxTickets == 2
CapacidadHorario == 1
MaxFacturados == 1

(* ------------------------- program constants --------------------------- *)
SolesPorPuntoDefault == 1000
PuntosPorSolDescuentoDefault == 1000
CapacidadInstantanea == 9999
AnchoSecuencial == 5

Procs == 1 .. NumProcs

ESTADOS_VALIDOS == <<"REGISTRADO", "EN_ALMACEN", "EN_RUTA", "LLEGO_A_DESTINO", "RETIRADO">>

EstadosSet == {ESTADOS_VALIDOS[i] : i \in 1 .. Len(ESTADOS_VALIDOS)}

TRANSICIONES_PERMITIDAS(estado) ==
  CASE estado = "REGISTRADO" -> {"EN_ALMACEN"}
    [] estado = "EN_ALMACEN" -> {"EN_RUTA"}
    [] estado = "EN_RUTA" -> {"LLEGO_A_DESTINO"}
    [] estado = "LLEGO_A_DESTINO" -> {"RETIRADO"}
    [] OTHER -> {}

(* ------------------------------ helpers -------------------------------- *)
Min(a, b) == IF a <= b THEN a ELSE b
Max(a, b) == IF a >= b THEN a ELSE b

Merge(r, u) == [f \in DOMAIN r |-> IF f \in DOMAIN u THEN u[f] ELSE r[f]]

RECURSIVE Digits(_)
Digits(n) == IF n < 10 THEN <<n>> ELSE Append(Digits(n \div 10), n % 10)

RECURSIVE PadStart(_, _)
PadStart(s, ancho) == IF Len(s) >= ancho THEN s ELSE PadStart(<<0>> \o s, ancho)

RECURSIVE ParseInt(_)
ParseInt(s) == IF Len(s) = 0 THEN 0
               ELSE 10 * ParseInt(SubSeq(s, 1, Len(s) - 1)) + s[Len(s)]

\* String order of two digit strings (ORDER BY on a VARCHAR column).
RECURSIVE StrLess(_, _)
StrLess(a, b) ==
  IF Len(a) = 0 THEN Len(b) > 0
  ELSE IF Len(b) = 0 THEN FALSE
  ELSE IF a[1] # b[1] THEN a[1] < b[1]
  ELSE StrLess(Tail(a), Tail(b))

Codigo(prefijo, fecha, secuencial) ==
  [pre |-> prefijo, fecha |-> fecha, sec |-> PadStart(Digits(secuencial), AnchoSecuencial)]

SinCodigo == [pre |-> "", fecha |-> 0, sec |-> <<>>]

\* variant: the sequence goes on from the highest code stored, whatever its day
SecuencialSinReinicio(codigos, prefijo, fecha) ==
  LET todos == {c \in codigos : c.pre = prefijo}
  IN IF todos = {} THEN 1
     ELSE LET ultimo == CHOOSE c \in todos : \A d \in todos : ~StrLess(c.sec, d.sec)
          IN ParseInt(ultimo.sec) + 1

\* findFirst({ where: startsWith PREFIX-fecha, orderBy: desc }) then parseInt + 1
SiguienteSecuencial(codigos, prefijo, fecha) ==
  LET delDia == {c \in codigos : c.pre = prefijo /\ c.fecha = fecha}
  IN IF delDia = {} THEN 1
     ELSE LET ultimo == CHOOSE c \in delDia : \A d \in delDia : ~StrLess(c.sec, d.sec)
          IN ParseInt(ultimo.sec) + 1

Rango(s) == {s[i] : i \in 1 .. Len(s)}

(* ------------------------------- state --------------------------------- *)
VARIABLES
  pasajeros,     \* tbl_pasajeros, keyed by documento_identidad
  viajes,        \* tbl_viajes, keyed by the trip (scheduled / instant)
  tickets,       \* tbl_tickets, in insertion order (index = id)
  encomiendas,   \* tbl_encomiendas, in insertion order (index = id)
  eventos,       \* tbl_eventos_encomienda, in insertion order
  series,        \* tbl_series_factura: numero_actual per series, -1 = no row
  comprobantes,  \* tbl_comprobantes, in insertion order (index = id)
  notasVenta,    \* tbl_notas_venta, in insertion order
  hoy,           \* current civil day in America/Lima
  guias,         \* tbl_guias_remision, in insertion order (index = id)
  procs          \* in-flight requests

vars == <<pasajeros, viajes, tickets, encomiendas, eventos, series,
          comprobantes, notasVenta, hoy, guias, procs>>

nucleo == <<pasajeros, viajes, tickets, encomiendas, eventos>>

Docs == {1, 2}
ViajeKeys == {"PROG", "INST"}
SerieKeys == {"BT74", "FT74", "NV01", "TZ74"}

SinPrecioManual == [presente |-> FALSE, milesimas |-> 0]

\* req.body.puntosACanjear: a number, or something parseInt cannot read
Entrada(n) == [esNumero |-> TRUE, valor |-> n]
EntradaNoNumerica == [esNumero |-> FALSE, valor |-> 0]
SinEntrada == Entrada(0)

Idle ==
  [pc |-> "idle", op |-> "",
   doc |-> 0, entrada |-> SinEntrada, puntosUsados |-> 0, dispLeido |-> 0, precioOriginal |-> 0, precioManual |-> SinPrecioManual,
   puntosPorSolDescuento |-> PuntosPorSolDescuentoDefault,
   tipoDocumento |-> "", origen |-> 0, destino |-> 0, clave |-> 0,
   pagoAlRecojo |-> FALSE,
   idEnc |-> 0, nuevoEstado |-> "", userPunto |-> 0, estadoObs |-> "", eventosObs |-> 0,
   claveIngresada |-> 0, idGuia |-> 0, conKeyfacil |-> FALSE,
   viajeKey |-> "", viajeCreado |-> FALSE, viajeVendida |-> 0, capacidadHorario |-> 0,
   pasExiste |-> FALSE, canjeFinal |-> 0, descuento |-> 0, precioFinal |-> 0,
   ganados |-> 0, nuevosDisp |-> 0, nuevosHist |-> 0,
   tipoComprobante |-> "", facturaOk |-> FALSE, serie |-> "", numero |-> 0,
   codigo |-> SinCodigo, idDoc |-> 0, idComp |-> 0, gateway |-> "",
   status |-> 0, error |-> "", comprobanteError |-> FALSE,
   compEstado |-> "", invoiceStatus |-> ""]

Set(p, u) == [procs EXCEPT ![p] = Merge(@, u)]

\* what is left of a request once its response is sent
Respuesta(r, u) ==
  Merge(Merge(Idle, [pc |-> "done", op |-> r.op, idEnc |-> r.idEnc, idDoc |-> r.idDoc,
                     nuevoEstado |-> r.nuevoEstado, eventosObs |-> r.eventosObs,
                     userPunto |-> r.userPunto, claveIngresada |-> r.claveIngresada,
                     gateway |-> r.gateway, invoiceStatus |-> r.invoiceStatus]), u)

\* res.status(s).json(...) ends the request
Responder(p, s, e) == [procs EXCEPT ![p] = Respuesta(@, [status |-> s, error |-> e])]

(* --------------------------- loyalty ledger ---------------------------- *)
\* Math.floor(precioOriginal / solesPorPunto)
PuntosGanados(precioOriginal) == precioOriginal \div SolesPorPuntoDefault

\* Math.max(0, parseInt(puntosACanjear) || 0); a non-numeric entry parses to NaN
PuntosUsados(entrada) == IF entrada.esNumero THEN Max(0, entrada.valor) ELSE 0

\* variant: the request is taken as it comes, without the cap of the balance
PuntosSinTope(usados, disponibles) == usados

\* Math.min(puntosUsados, puntosDisponiblesActuales)
PuntosACanjearFinal(usados, disponibles) == Min(usados, disponibles)

\* variant: the discount is not capped at the original price
DescuentoSinTope(canje, precioOriginal, puntosPorSolDescuento) ==
  (2 * canje * 10000 + puntosPorSolDescuento) \div (2 * puntosPorSolDescuento)

\* canje / puntosPorSolDescuento, capped at the original price, rounded to cents
\* (prices in cents, the ratio in hundredths of a point per sol)
DescuentoPuntos(canje, precioOriginal, puntosPorSolDescuento) ==
  LET num == canje * 10000
      den == puntosPorSolDescuento
  IN IF num >= precioOriginal * den THEN precioOriginal
     ELSE (2 * num + den) \div (2 * den)

\* variant: a manual price below zero is stored as it comes
PrecioManualSinPiso(precioManual, precioOriginal, descuento) ==
  IF precioManual.presente
  THEN (precioManual.milesimas + 5) \div 10
  ELSE Max(0, precioOriginal - descuento)

\* variant: the discount is not taken off the price
PrecioSinDescuento(precioManual, precioOriginal, descuento) == precioOriginal

\* precioManual != null && !isNaN ? max(0, round(manual*100)/100) : max(0, orig - desc)
PrecioFinal(precioManual, precioOriginal, descuento) ==
  IF precioManual.presente
  THEN Max(0, (precioManual.milesimas + 5) \div 10)
  ELSE Max(0, precioOriginal - descuento)

(* ---------------------- transaction machinery -------------------------- *)
\* variant: the write goes to the table at once, outside the transaction
EscrituraDirecta(confirmado, conCambio) == conCambio

\* A write issued through the transaction client stays invisible until commit.
EscrituraEnTx(confirmado, conCambio) == confirmado

\* program counters at which the request holds an open transaction
\* the row lock / pending unique key on tbl_pasajeros taken by the staged write
RetienePasajero(q, d) ==
  /\ procs[q].doc = d
  /\ procs[q].pc \in {"v_codigo", "v_ticket", "rg_crear"}

\* the pending INSERT of the trip row
RetieneViaje(q, k) ==
  /\ procs[q].viajeKey = k
  /\ procs[q].viajeCreado
  /\ procs[q].pc \in {"v_pasajero", "v_paswrite", "v_codigo", "v_ticket"}

\* variant: the points earned are added to the balance but not to the historic total
PasajeroSinHistorico(p) ==
  [existe |-> TRUE,
   disp |-> IF procs[p].pasExiste THEN procs[p].nuevosDisp ELSE procs[p].ganados,
   hist |-> IF procs[p].pasExiste THEN procs[p].nuevosHist - procs[p].ganados ELSE 0]

\* the customer row as the sale writes it: create with the points earned, or
\* update with the new balances
PasajeroTrasVenta(p) ==
  [existe |-> TRUE,
   disp |-> IF procs[p].pasExiste THEN procs[p].nuevosDisp ELSE procs[p].ganados,
   hist |-> IF procs[p].pasExiste THEN procs[p].nuevosHist ELSE procs[p].ganados]

\* number of events of a shipment when a request read it (what the request saw)
EventosDe(id) == Cardinality({i \in 1 .. Len(eventos) : eventos[i].idEnc = id})

(* --------------------------- cambiarEstado ----------------------------- *)
\* variant: any point may change the shipment
PerteneceSiempre(userPunto, enc) == TRUE

\* req.user.id_punto === idPuntoOrigen || req.user.id_punto === idPuntoDestino
PerteneceAPunto(userPunto, enc) == userPunto = enc.origen \/ userPunto = enc.destino

\* variant: cambiarEstado takes RETIRADO like any other status
RetiroPorCambiarEstado(nuevoEstado) == FALSE

\* nuevoEstado === 'RETIRADO': the request is sent to the endpoint of retirar
EsRetiro(nuevoEstado) == nuevoEstado = "RETIRADO"

\* request validation up to the opening of the transaction
CambiarEstadoValidar(p, id, nuevoEstado, userPunto) ==
  /\ procs[p].pc = "idle"
  /\ UNCHANGED <<pasajeros, viajes, tickets, encomiendas, eventos, series,
                 comprobantes, notasVenta, hoy, guias>>
  /\ LET base == Merge(Idle, [op |-> "cambiarEstado", idEnc |-> id,
                              nuevoEstado |-> nuevoEstado, userPunto |-> userPunto])
         fin(s, e) == [procs EXCEPT ![p] = Respuesta(base, [status |-> s, error |-> e])]
     IN IF nuevoEstado = "" THEN procs' = fin(400, "ESTADO_REQUERIDO")
        ELSE IF nuevoEstado \notin EstadosSet THEN procs' = fin(400, "ESTADO_NO_VALIDO")
        ELSE IF id > Len(encomiendas) THEN procs' = fin(404, "NO_ENCONTRADA")
        ELSE LET enc == encomiendas[id] IN
          IF userPunto # 0 /\ ~PerteneceAPunto(userPunto, enc)
          THEN procs' = fin(403, "NO_AUTORIZADO")
          ELSE IF nuevoEstado \notin TRANSICIONES_PERMITIDAS(enc.estadoActual)
          THEN procs' = fin(400, "TRANSICION_NO_PERMITIDA")
          ELSE IF EsRetiro(nuevoEstado)
          THEN procs' = fin(400, "USE_RETIRAR")
          ELSE procs' = [procs EXCEPT ![p] =
                 Merge(base, [pc |-> "ce_tx", estadoObs |-> enc.estadoActual,
                              eventosObs |-> EventosDe(id)])]

\* variant: the re-read is not compared with the validating read
EstadoSinVerificar(actual, observado) == TRUE

\* encActual.estadoActual !== encomienda.estadoActual -> throw
EstadoSinCambio(actual, observado) == actual = observado

\* first statement of the transaction: re-read of the shipment
CambiarEstadoTxLeer(p) ==
  /\ procs[p].pc = "ce_tx"
  /\ UNCHANGED <<pasajeros, viajes, tickets, encomiendas, eventos, series,
                 comprobantes, notasVenta, hoy, guias>>
  /\ IF EstadoSinCambio(encomiendas[procs[p].idEnc].estadoActual, procs[p].estadoObs)
     THEN procs' = Set(p, [pc |-> "ce_escribir"])
     ELSE procs' = Responder(p, 409, "ESTADO_MODIFICADO_CONCURRENTEMENTE")

\* Superadmin sin punto: EN_ALMACEN usa origen, otros estados usan destino
PuntoEvento(userPunto, nuevoEstado, enc) ==
  IF userPunto # 0 THEN userPunto
  ELSE IF nuevoEstado = "EN_ALMACEN" THEN enc.origen ELSE enc.destino

\* UPDATE of the status, INSERT of the event, COMMIT
CambiarEstadoTxEscribir(p) ==
  /\ procs[p].pc = "ce_escribir"
  /\ LET id == procs[p].idEnc
         enc == encomiendas[id]
     IN /\ encomiendas' = [encomiendas EXCEPT ![id].estadoActual = procs[p].nuevoEstado]
        /\ eventos' = Append(eventos,
             [idEnc |-> id, estadoDestino |-> procs[p].nuevoEstado,
              punto |-> PuntoEvento(procs[p].userPunto, procs[p].nuevoEstado, enc),
              dniRetiro |-> FALSE, foto |-> FALSE])
  /\ procs' = Responder(p, 200, "")
  /\ UNCHANGED <<pasajeros, viajes, tickets, series, comprobantes, notasVenta, hoy, guias>>

(* ------------------------- invoice emission ---------------------------- *)
\* the handlers of /api/facturacion that emit for a ticket or shipment sold before
OpsEmitirDesde == {"emitirDesdeTicket", "emitirDesdeEncomienda"}

OrigenTipo(p) == IF procs[p].op \in {"vender", "venderInstantaneo", "emitirDesdeTicket"} THEN "TICKET" ELSE "ENCOMIENDA"

\* status of the success response of the handler
StatusOk(p) == IF procs[p].op \in {"vender", "venderInstantaneo", "registrar", "emitirGuia"} \cup OpsEmitirDesde THEN 201 ELSE 200

\* catch (errorComprobante): the request still answers with its success status;
\* emitirDesdeTicket and emitirDesdeEncomienda answer 500 with the message
ResponderErrorComprobante(p, e) ==
  [procs EXCEPT ![p] = Respuesta(@, [status |-> IF procs[p].op \in OpsEmitirDesde THEN 500
                                                ELSE StatusOk(p),
                                      error |-> e, comprobanteError |-> TRUE])]

TipoDeSerie(serie) == IF serie = "FT74" THEN "01" ELSE IF serie = "BT74" THEN "03" ELSE "NV"

\* variant: a counter that has no row is started on the fly
SerieCreadaAlVuelo(numeroActual) == FALSE

\* !result || result.length === 0: the UPDATE matched no row (a series without
\* row is kept as -1)
SerieNoEncontrada(numeroActual) == numeroActual < 0

\* variant: the counter hands out the same first number every time
NumeroReiniciado(numeroActual) == 1

\* variant: the counter is returned without being raised
NumeroSinAvanzar(numeroActual) == numeroActual

\* UPDATE tbl_series_factura SET numero_actual = numero_actual + 1 ... RETURNING
NumeroSiguiente(numeroActual) == numeroActual + 1

\* emitirComprobante: obtenerSiguienteNumero and INSERT of the PENDIENTE row
EmitirNumero(p) ==
  /\ procs[p].pc = "em_numero"
  /\ LET serie == procs[p].serie IN
     IF SerieNoEncontrada(series[serie])
     THEN /\ procs' = ResponderErrorComprobante(p, "SERIE_NO_ENCONTRADA")
          /\ UNCHANGED <<series, comprobantes>>
     ELSE LET numero == NumeroSiguiente(series[serie]) IN
          /\ series' = [series EXCEPT ![serie] = numero]
          /\ IF \E c \in Rango(comprobantes) : c.serie = serie /\ c.numero = numero
             THEN /\ procs' = ResponderErrorComprobante(p, "COMPROBANTE_DUPLICADO")
                  /\ UNCHANGED comprobantes
             ELSE /\ comprobantes' = Append(comprobantes,
                       [tipo |-> TipoDeSerie(serie), serie |-> serie, numero |-> numero,
                        estado |-> "PENDIENTE", origenTipo |-> OrigenTipo(p),
                        origenId |-> procs[p].idDoc, keyfacilId |-> FALSE])
                  /\ procs' = Set(p, [pc |-> "em_enviar", numero |-> numero,
                                      idComp |-> Len(comprobantes) + 1])
  /\ UNCHANGED <<pasajeros, viajes, tickets, encomiendas, eventos, notasVenta, hoy, guias>>

\* variant: the answer of the gateway is not looked at
EstadoSiempreAceptado(gateway) == "ACEPTADO"

\* response.success ? 'ACEPTADO' : 'RECHAZADO'; a fetch that throws gives success = false
EstadoTrasEnvio(gateway) == IF gateway = "OK" THEN "ACEPTADO" ELSE "RECHAZADO"

\* emitirComprobante: call to the gateway and UPDATE of the row with its answer
EmitirEnviar(p, gateway) ==
  /\ procs[p].pc = "em_enviar"
  /\ comprobantes' = [comprobantes EXCEPT
        ![procs[p].idComp].estado = EstadoTrasEnvio(gateway),
        ![procs[p].idComp].keyfacilId = (gateway = "OK")]
  /\ procs' = Set(p, [pc |-> "em_vincular", gateway |-> gateway])
  /\ UNCHANGED <<pasajeros, viajes, tickets, encomiendas, eventos, series, notasVenta, hoy, guias>>

\* UPDATE ... SET id_comprobante = ..., invoice_status = 'EMITIDO', then the response
EmitirVincular(p) ==
  /\ procs[p].pc = "em_vincular"
  /\ IF OrigenTipo(p) = "TICKET"
     THEN /\ tickets' = [tickets EXCEPT ![procs[p].idDoc].idComprobante = procs[p].idComp,
                                        ![procs[p].idDoc].invoiceStatus =
                                           IF procs[p].op \in OpsEmitirDesde THEN @ ELSE "EMITIDO"]
          /\ UNCHANGED encomiendas
     ELSE /\ encomiendas' = [encomiendas EXCEPT ![procs[p].idDoc].idComprobante = procs[p].idComp,
                                                ![procs[p].idDoc].invoiceStatus =
                                                   IF procs[p].op \in OpsEmitirDesde THEN @ ELSE "EMITIDO"]
          /\ UNCHANGED tickets
  /\ procs' = [procs EXCEPT ![p] = Respuesta(@, [status |-> StatusOk(p),
                      compEstado |-> comprobantes[procs[p].idComp].estado])]
  /\ UNCHANGED <<pasajeros, viajes, eventos, series, comprobantes, notasVenta, hoy, guias>>

\* VERIFICACION: UPDATE tbl_series_factura ... WHERE serie = 'NV01' RETURNING
EmitirNotaNumero(p) ==
  /\ procs[p].pc = "em_nota_numero"
  /\ IF SerieNoEncontrada(series["NV01"])
     THEN /\ procs' = ResponderErrorComprobante(p, "SERIE_NO_ENCONTRADA")
          /\ UNCHANGED series
     ELSE /\ series' = [series EXCEPT !["NV01"] = NumeroSiguiente(@)]
          /\ procs' = Set(p, [pc |-> "em_nota", numero |-> NumeroSiguiente(series["NV01"])])
  /\ UNCHANGED <<pasajeros, viajes, tickets, encomiendas, eventos, comprobantes, notasVenta, hoy, guias>>

\* VERIFICACION: INSERT INTO tbl_notas_venta, UPDATE ... SET id_nota_venta, response
EmitirNotaCrear(p) ==
  /\ procs[p].pc = "em_nota"
  /\ IF \E n \in Rango(notasVenta) : n.serie = "NV01" /\ n.numero = procs[p].numero
     THEN /\ procs' = ResponderErrorComprobante(p, "NOTA_DUPLICADA")
          /\ UNCHANGED <<notasVenta, tickets, encomiendas>>
     ELSE /\ notasVenta' = Append(notasVenta,
               [serie |-> "NV01", numero |-> procs[p].numero,
                origenTipo |-> OrigenTipo(p), origenId |-> procs[p].idDoc])
          /\ IF OrigenTipo(p) = "TICKET"
             THEN /\ tickets' = [tickets EXCEPT ![procs[p].idDoc].idNotaVenta = Len(notasVenta) + 1]
                  /\ UNCHANGED encomiendas
             ELSE /\ encomiendas' = [encomiendas EXCEPT ![procs[p].idDoc].idNotaVenta = Len(notasVenta) + 1]
                  /\ UNCHANGED tickets
          /\ procs' = [procs EXCEPT ![p] = Respuesta(@, [status |-> StatusOk(p),
                                                         compEstado |-> "NOTA_VENTA"])]
  /\ UNCHANGED <<pasajeros, viajes, eventos, series, comprobantes, hoy, guias>>

(* ------------------------------ retirar -------------------------------- *)
\* variant: the check of cambiarEstado, origin or destination
EsOrigenODestino(userPunto, enc) == userPunto = enc.origen \/ userPunto = enc.destino

\* req.user.id_punto !== encomienda.idPuntoDestino refuses
EsPuntoDestino(userPunto, enc) == userPunto = enc.destino

\* variant: a shipment with a security code is handed over whatever code is given
ClaveSinComparar(claveIngresada, clave) == TRUE

\* claveIngresada !== encomienda.clave_seguridad refuses
ClaveCoincide(claveIngresada, clave) == claveIngresada = clave

\* request validation up to the opening of the transaction
RetirarValidar(p, id, dniRetiro, foto, claveIngresada, tipoComprobante, facturaOk, userPunto) ==
  /\ procs[p].pc = "idle"
  /\ UNCHANGED <<pasajeros, viajes, tickets, encomiendas, eventos, series,
                 comprobantes, notasVenta, hoy, guias>>
  /\ LET base == Merge(Idle, [op |-> "retirar", idEnc |-> id, idDoc |-> id,
                              nuevoEstado |-> "RETIRADO", userPunto |-> userPunto,
                              claveIngresada |-> claveIngresada,
                              tipoComprobante |-> tipoComprobante, facturaOk |-> facturaOk])
         fin(s, e) == [procs EXCEPT ![p] = Respuesta(base, [status |-> s, error |-> e])]
     IN IF ~dniRetiro THEN procs' = fin(400, "DNI_REQUERIDO")
        ELSE IF ~foto THEN procs' = fin(400, "FOTO_REQUERIDA")
        ELSE IF id > Len(encomiendas) THEN procs' = fin(404, "NO_ENCONTRADA")
        ELSE LET enc == encomiendas[id] IN
          IF enc.estadoActual # "LLEGO_A_DESTINO"
          THEN procs' = fin(400, "NO_LLEGO_A_DESTINO")
          ELSE IF userPunto # 0 /\ ~EsPuntoDestino(userPunto, enc)
          THEN procs' = fin(403, "NO_AUTORIZADO")
          ELSE IF enc.clave # 0 /\ claveIngresada = 0
          THEN procs' = fin(400, "CLAVE_REQUERIDA")
          ELSE IF enc.clave # 0 /\ ~ClaveCoincide(claveIngresada, enc.clave)
          THEN procs' = fin(400, "CLAVE_INCORRECTA")
          ELSE procs' = [procs EXCEPT ![p] =
                 Merge(base, [pc |-> "rt_tx", estadoObs |-> enc.estadoActual,
                              eventosObs |-> EventosDe(id),
                              pagoAlRecojo |-> enc.pagoAlRecojo])]

\* first statement of the transaction: re-read of the shipment
RetirarTxLeer(p) ==
  /\ procs[p].pc = "rt_tx"
  /\ UNCHANGED <<pasajeros, viajes, tickets, encomiendas, eventos, series,
                 comprobantes, notasVenta, hoy, guias>>
  /\ IF EstadoSinCambio(encomiendas[procs[p].idEnc].estadoActual, "LLEGO_A_DESTINO")
     THEN procs' = Set(p, [pc |-> "rt_escribir"])
     ELSE procs' = Responder(p, 409, "ESTADO_MODIFICADO_CONCURRENTEMENTE")

\* UPDATE of the status, storing of the photo, INSERT of the event, COMMIT,
\* and the choice of what is emitted after the commit
RetirarTxEscribir(p, fotoGuardada) ==
  /\ procs[p].pc = "rt_escribir"
  /\ UNCHANGED <<pasajeros, viajes, tickets, series, comprobantes, notasVenta, hoy, guias>>
  /\ IF ~fotoGuardada
     THEN /\ procs' = Responder(p, 500, "ERROR_FOTO")
          /\ UNCHANGED <<encomiendas, eventos>>
     ELSE LET id == procs[p].idEnc
              tipo == procs[p].tipoComprobante
          IN /\ encomiendas' = [encomiendas EXCEPT ![id].estadoActual = "RETIRADO"]
             /\ eventos' = Append(eventos,
                  [idEnc |-> id, estadoDestino |-> "RETIRADO",
                   punto |-> encomiendas[id].destino, dniRetiro |-> TRUE, foto |-> TRUE])
             /\ IF procs[p].pagoAlRecojo /\ tipo = "BOLETA"
                THEN procs' = Set(p, [pc |-> "em_numero", serie |-> "BT74"])
                ELSE IF procs[p].pagoAlRecojo /\ tipo = "FACTURA"
                THEN IF procs[p].facturaOk
                     THEN procs' = Set(p, [pc |-> "em_numero", serie |-> "FT74"])
                     ELSE procs' = ResponderErrorComprobante(p, "DATOS_FACTURA_INCOMPLETOS")
                ELSE procs' = Responder(p, 200, "")

(* ------------------- shared steps of a sale transaction ---------------- *)
TIPOS_DOCUMENTO == {"BOLETA", "FACTURA", "VERIFICACION"}

\* first program counter of the emission that follows the commit
PcEmision(tipoDocumentoAEmitir) ==
  IF tipoDocumentoAEmitir = "VERIFICACION" THEN "em_nota_numero" ELSE "em_numero"

SerieEmision(tipoDocumentoAEmitir) ==
  IF tipoDocumentoAEmitir = "BOLETA" THEN "BT74"
  ELSE IF tipoDocumentoAEmitir = "FACTURA" THEN "FT74" ELSE "NV01"

\* tx.pasajero.findFirst and the point arithmetic that follows it
LeerPasajero(p, siguientePc) ==
  LET fila == pasajeros[procs[p].doc]
      disp == IF fila.existe THEN fila.disp ELSE 0
      hist == IF fila.existe THEN fila.hist ELSE 0
      canje == PuntosACanjearFinal(procs[p].puntosUsados, disp)
      desc == DescuentoPuntos(canje, procs[p].precioOriginal, procs[p].puntosPorSolDescuento)
  IN Set(p, [pc |-> siguientePc, pasExiste |-> fila.existe, dispLeido |-> disp,
             canjeFinal |-> canje, descuento |-> desc,
             precioFinal |-> PrecioFinal(procs[p].precioManual, procs[p].precioOriginal, desc),
             nuevosDisp |-> disp - canje + procs[p].ganados,
             nuevosHist |-> hist + procs[p].ganados])

\* variant: tbl_pasajeros without the unique index on the document
DocumentoSinIndice(pasExiste, existe) == FALSE

\* tbl_pasajeros_documento_identidad_key: a create for a document that another
\* transaction has inserted since the findFirst fails
DocumentoDuplicado(pasExiste, existe) == ~pasExiste /\ existe

\* tx.pasajero.create / tx.pasajero.update
EscribirPasajero(p, siguientePc) ==
  LET d == procs[p].doc IN
  /\ \A q \in Procs \ {p} : ~RetienePasajero(q, d)
  /\ IF DocumentoDuplicado(procs[p].pasExiste, pasajeros[d].existe)
     THEN /\ procs' = Responder(p, 500, "PASAJERO_DUPLICADO")
          /\ UNCHANGED pasajeros
     ELSE /\ pasajeros' = EscrituraEnTx(pasajeros,
                            [pasajeros EXCEPT ![d] = PasajeroTrasVenta(p)])
          /\ procs' = Set(p, [pc |-> siguientePc])

(* ------------------------------ registrar ------------------------------ *)
\* request validation and price computation, up to the opening of the transaction
RegistrarInicio(p, origen, destino, doc, puntosACanjear, tipoDocumento, facturaOk, pagoAlRecojo, clave, precio, puntosPorSolDescuento) ==
  /\ procs[p].pc = "idle"
  /\ UNCHANGED <<pasajeros, viajes, tickets, encomiendas, eventos, series,
                 comprobantes, notasVenta, hoy, guias>>
  /\ LET base == Merge(Idle, [op |-> "registrar", origen |-> origen, destino |-> destino,
                              doc |-> doc, tipoDocumento |-> tipoDocumento,
                              pagoAlRecojo |-> pagoAlRecojo, clave |-> clave])
         fin(s, e) == [procs EXCEPT ![p] = Respuesta(base, [status |-> s, error |-> e])]
     IN IF tipoDocumento \notin TIPOS_DOCUMENTO THEN procs' = fin(400, "TIPO_DOCUMENTO")
        ELSE IF tipoDocumento = "FACTURA" /\ ~facturaOk THEN procs' = fin(400, "DATOS_FACTURA")
        ELSE IF origen = destino THEN procs' = fin(400, "ORIGEN_IGUAL_DESTINO")
        ELSE procs' = [procs EXCEPT ![p] =
               Merge(base, [pc |-> "rg_codigo", precioOriginal |-> precio,
                            puntosPorSolDescuento |-> puntosPorSolDescuento,
                            ganados |-> PuntosGanados(precio),
                            entrada |-> puntosACanjear,
                            puntosUsados |-> PuntosUsados(puntosACanjear)])]

\* generarCodigoTracking(tx)
RegistrarCodigo(p) ==
  /\ procs[p].pc = "rg_codigo"
  /\ procs' = Set(p, [pc |-> "rg_pasajero",
        codigo |-> Codigo("ENC", hoy,
                     SiguienteSecuencial({e.codigo : e \in Rango(encomiendas)}, "ENC", hoy))])
  /\ UNCHANGED <<pasajeros, viajes, tickets, encomiendas, eventos, series,
                 comprobantes, notasVenta, hoy, guias>>

RegistrarPasajero(p) ==
  /\ procs[p].pc = "rg_pasajero"
  /\ procs' = LeerPasajero(p, "rg_paswrite")
  /\ UNCHANGED <<pasajeros, viajes, tickets, encomiendas, eventos, series,
                 comprobantes, notasVenta, hoy, guias>>

RegistrarEscribirPasajero(p) ==
  /\ procs[p].pc = "rg_paswrite"
  /\ EscribirPasajero(p, "rg_crear")
  /\ UNCHANGED <<viajes, tickets, encomiendas, eventos, series, comprobantes, notasVenta, hoy, guias>>

\* the row written by tx.encomienda.create
FilaEncomienda(r) ==
  [codigo |-> r.codigo, origen |-> r.origen, destino |-> r.destino, doc |-> r.doc,
   estadoActual |-> "REGISTRADO", clave |-> r.clave, pagoAlRecojo |-> r.pagoAlRecojo,
   precioOriginal |-> r.precioOriginal, precioFinal |-> r.precioFinal,
   ganados |-> r.ganados, usados |-> r.canjeFinal, descuento |-> r.descuento,
   invoiceStatus |-> "PENDIENTE", idComprobante |-> 0, idNotaVenta |-> 0]

\* the row written by tx.eventoEncomienda.create at registration
EventoRegistrado(id, origen) ==
  [idEnc |-> id, estadoDestino |-> "REGISTRADO", punto |-> origen,
   dniRetiro |-> FALSE, foto |-> FALSE]

\* tx.encomienda.create, tx.eventoEncomienda.create, COMMIT
RegistrarCrear(p) ==
  /\ procs[p].pc = "rg_crear"
  /\ UNCHANGED <<viajes, tickets, series, comprobantes, notasVenta, hoy, guias>>
  /\ IF \E e \in Rango(encomiendas) : e.codigo = procs[p].codigo
     THEN /\ procs' = Responder(p, 500, "CODIGO_DUPLICADO")
          /\ UNCHANGED <<pasajeros, encomiendas, eventos>>
     ELSE LET id == Len(encomiendas) + 1
              emitir == IF procs[p].pagoAlRecojo THEN "VERIFICACION" ELSE procs[p].tipoDocumento
          IN /\ pasajeros' = [pasajeros EXCEPT ![procs[p].doc] = PasajeroTrasVenta(p)]
             /\ encomiendas' = Append(encomiendas, FilaEncomienda(procs[p]))
             /\ eventos' = Append(eventos, EventoRegistrado(id, procs[p].origen))
             /\ procs' = Set(p, [pc |-> PcEmision(emitir), serie |-> SerieEmision(emitir),
                                 idDoc |-> id, idEnc |-> id, invoiceStatus |-> "PENDIENTE"])

(* ------------------------ vender / venderInstantaneo ------------------- *)
\* request validation and price lookup, up to the opening of the transaction
VenderInicio(p, op, doc, puntosACanjear, tipoDocumento, facturaOk, precioManual, precio, puntosPorSolDescuento) ==
  /\ procs[p].pc = "idle"
  /\ UNCHANGED <<pasajeros, viajes, tickets, encomiendas, eventos, series,
                 comprobantes, notasVenta, hoy, guias>>
  /\ LET base == Merge(Idle, [op |-> op, doc |-> doc, tipoDocumento |-> tipoDocumento,
                              viajeKey |-> IF op = "vender" THEN "PROG" ELSE "INST"])
         fin(s, e) == [procs EXCEPT ![p] = Respuesta(base, [status |-> s, error |-> e])]
     IN IF tipoDocumento \notin TIPOS_DOCUMENTO THEN procs' = fin(400, "TIPO_DOCUMENTO")
        ELSE IF tipoDocumento = "FACTURA" /\ ~facturaOk THEN procs' = fin(400, "DATOS_FACTURA")
        ELSE procs' = [procs EXCEPT ![p] =
               Merge(base, [pc |-> "v_viaje", precioOriginal |-> precio,
                            puntosPorSolDescuento |-> puntosPorSolDescuento,
                            precioManual |-> precioManual,
                            capacidadHorario |-> IF op = "vender" THEN CapacidadHorario
                                                 ELSE CapacidadInstantanea,
                            ganados |-> PuntosGanados(precio),
                            entrada |-> puntosACanjear,
                            puntosUsados |-> PuntosUsados(puntosACanjear)])]

\* cuposDisponibles <= 0 / viaje.estado !== 'ABIERTO'
RevisarViaje(p, capacidadTotal, capacidadVendida, estado, creado) ==
  IF capacidadTotal - capacidadVendida <= 0
  THEN Responder(p, IF procs[p].op = "vender" THEN 400 ELSE 500, "AFORO_COMPLETO")
  ELSE IF estado # "ABIERTO" THEN Responder(p, 500, "VIAJE_NO_ABIERTO")
  ELSE Set(p, [pc |-> "v_pasajero", viajeVendida |-> capacidadVendida, viajeCreado |-> creado])

\* tx.viaje.findUnique
VenderViaje(p) ==
  /\ procs[p].pc = "v_viaje"
  /\ LET v == viajes[procs[p].viajeKey] IN
     IF v.existe
     THEN procs' = RevisarViaje(p, v.capacidadTotal, v.capacidadVendida, v.estado, FALSE)
     ELSE procs' = Set(p, [pc |-> "v_viaje_crear"])
  /\ UNCHANGED <<pasajeros, viajes, tickets, encomiendas, eventos, series,
                 comprobantes, notasVenta, hoy, guias>>

\* tx.viaje.create for a trip that was not found
VenderViajeCrear(p) ==
  /\ procs[p].pc = "v_viaje_crear"
  /\ \A q \in Procs \ {p} : ~RetieneViaje(q, procs[p].viajeKey)
  /\ IF viajes[procs[p].viajeKey].existe
     THEN procs' = Responder(p, 500, "VIAJE_DUPLICADO")
     ELSE procs' = RevisarViaje(p, procs[p].capacidadHorario, 0, "ABIERTO", TRUE)
  /\ UNCHANGED <<pasajeros, viajes, tickets, encomiendas, eventos, series,
                 comprobantes, notasVenta, hoy, guias>>

VenderPasajero(p) ==
  /\ procs[p].pc = "v_pasajero"
  /\ procs' = LeerPasajero(p, "v_paswrite")
  /\ UNCHANGED <<pasajeros, viajes, tickets, encomiendas, eventos, series,
                 comprobantes, notasVenta, hoy, guias>>

VenderEscribirPasajero(p) ==
  /\ procs[p].pc = "v_paswrite"
  /\ EscribirPasajero(p, "v_codigo")
  /\ UNCHANGED <<viajes, tickets, encomiendas, eventos, series, comprobantes, notasVenta, hoy, guias>>

\* generarCodigoTicket(tx)
VenderCodigo(p) ==
  /\ procs[p].pc = "v_codigo"
  /\ procs' = Set(p, [pc |-> "v_ticket",
        codigo |-> Codigo("TKT", hoy,
                     SiguienteSecuencial({t.codigo : t \in Rango(tickets)}, "TKT", hoy))])
  /\ UNCHANGED <<pasajeros, viajes, tickets, encomiendas, eventos, series,
                 comprobantes, notasVenta, hoy, guias>>

\* tx.ticket.create, tx.viaje.update, COMMIT
VenderTicket(p) ==
  /\ procs[p].pc = "v_ticket"
  /\ UNCHANGED <<encomiendas, eventos, series, comprobantes, notasVenta, hoy, guias>>
  /\ IF \E t \in Rango(tickets) : t.codigo = procs[p].codigo
     THEN /\ procs' = Responder(p, 500, "CODIGO_DUPLICADO")
          /\ UNCHANGED <<pasajeros, viajes, tickets>>
     ELSE LET id == Len(tickets) + 1
              k == procs[p].viajeKey
          IN /\ pasajeros' = [pasajeros EXCEPT ![procs[p].doc] = PasajeroTrasVenta(p)]
             /\ viajes' = [viajes EXCEPT ![k] =
                  [existe |-> TRUE,
                   capacidadTotal |-> IF procs[p].viajeCreado THEN procs[p].capacidadHorario
                                      ELSE viajes[k].capacidadTotal,
                   capacidadVendida |-> procs[p].viajeVendida + 1,
                   estado |-> IF procs[p].viajeCreado THEN "ABIERTO" ELSE viajes[k].estado]]
             /\ tickets' = Append(tickets,
                  [codigo |-> procs[p].codigo, viaje |-> k, doc |-> procs[p].doc,
                   estado |-> "EMITIDO",
                   precioOriginal |-> procs[p].precioOriginal,
                   precioFinal |-> procs[p].precioFinal,
                   ganados |-> procs[p].ganados, usados |-> procs[p].canjeFinal,
                   descuento |-> procs[p].descuento,
                   invoiceStatus |-> "PENDIENTE", idComprobante |-> 0, idNotaVenta |-> 0])
             /\ procs' = Set(p, [pc |-> PcEmision(procs[p].tipoDocumento),
                                 serie |-> SerieEmision(procs[p].tipoDocumento),
                                 idDoc |-> id, invoiceStatus |-> "PENDIENTE"])

\* the response has been sent; the worker takes the next request
Terminar(p) ==
  /\ procs[p].pc = "done"
  /\ procs' = [procs EXCEPT ![p] = Idle]
  /\ UNCHANGED <<pasajeros, viajes, tickets, encomiendas, eventos, series,
                 comprobantes, notasVenta, hoy, guias>>

(* ------------- emitirDesdeTicket / emitirDesdeEncomienda --------------- *)
\* variant: the existing invoice is not looked for
SinComprobanteVigente(filas, origenTipo, origenId) == FALSE

\* SELECT id FROM tbl_comprobantes WHERE origen_tipo = ... AND origen_id = ...
\* AND estado NOT IN ('ANULADO', 'RECHAZADO')
ComprobanteVigente(filas, origenTipo, origenId) ==
  \E c \in Rango(filas) :
    /\ c.origenTipo = origenTipo
    /\ c.origenId = origenId
    /\ c.estado \notin {"ANULADO", "RECHAZADO"}

\* request validation and findUnique of the ticket or shipment
EmitirDesdeInicio(p, op, id, serie) ==
  /\ procs[p].pc = "idle"
  /\ op \in OpsEmitirDesde
  /\ LET base == Merge(Idle, [op |-> op, idDoc |-> id, serie |-> serie])
         existe == IF op = "emitirDesdeTicket" THEN id \in 1 .. Len(tickets)
                   ELSE id \in 1 .. Len(encomiendas)
     IN IF ~existe
        THEN procs' = [procs EXCEPT ![p] = Respuesta(base, [status |-> 500,
                                                            error |-> "ORIGEN_NO_ENCONTRADO"])]
        ELSE procs' = [procs EXCEPT ![p] = Merge(base, [pc |-> "ed_vigente"])]
  /\ UNCHANGED <<pasajeros, viajes, tickets, encomiendas, eventos, series,
                 comprobantes, notasVenta, hoy, guias>>

\* the look-up of an invoice already emitted for the origin
EmitirDesdeVerificar(p) ==
  /\ procs[p].pc = "ed_vigente"
  /\ IF ComprobanteVigente(comprobantes, OrigenTipo(p), procs[p].idDoc)
     THEN procs' = [procs EXCEPT ![p] = Respuesta(@, [status |-> 500,
                                                      error |-> "YA_TIENE_COMPROBANTE"])]
     ELSE procs' = Set(p, [pc |-> "em_numero"])
  /\ UNCHANGED <<pasajeros, viajes, tickets, encomiendas, eventos, series,
                 comprobantes, notasVenta, hoy, guias>>

(* ------------------------ anularComprobanteLocal ----------------------- *)
\* SELECT of the invoice and the checks on it
AnularComprobanteLeer(p, id) ==
  /\ procs[p].pc = "idle"
  /\ LET base == Merge(Idle, [op |-> "anularComprobante", idComp |-> id])
         fin(e) == [procs EXCEPT ![p] = Respuesta(base, [status |-> 500, error |-> e,
                                                         idComp |-> id])]
     IN IF id \notin 1 .. Len(comprobantes) THEN procs' = fin("COMPROBANTE_NO_ENCONTRADO")
        ELSE IF comprobantes[id].estado = "ANULADO" THEN procs' = fin("YA_ANULADO")
        ELSE procs' = [procs EXCEPT ![p] =
               Merge(base, [pc |-> IF comprobantes[id].keyfacilId THEN "ac_gateway" ELSE "ac_update",
                            conKeyfacil |-> comprobantes[id].keyfacilId,
                            origen |-> comprobantes[id].origenId,
                            tipoComprobante |-> comprobantes[id].origenTipo])]
  /\ UNCHANGED <<pasajeros, viajes, tickets, encomiendas, eventos, series,
                 comprobantes, notasVenta, hoy, guias>>

\* keyfacilService.anularComprobante: a failure is logged and the void goes on
AnularComprobanteGateway(p, gateway) ==
  /\ procs[p].pc = "ac_gateway"
  /\ procs' = Set(p, [pc |-> "ac_update", gateway |-> gateway])
  /\ UNCHANGED <<pasajeros, viajes, tickets, encomiendas, eventos, series,
                 comprobantes, notasVenta, hoy, guias>>

\* variant: the local void is applied only when the gateway accepted it
EstadoSegunGateway(estado, conKeyfacil, gateway) ==
  IF conKeyfacil /\ gateway # "OK" THEN estado ELSE "ANULADO"

\* UPDATE tbl_comprobantes SET estado = 'ANULADO'
EstadoTrasAnular(estado, conKeyfacil, gateway) == "ANULADO"

AnularComprobanteUpdate(p) ==
  /\ procs[p].pc = "ac_update"
  /\ comprobantes' = [comprobantes EXCEPT ![procs[p].idComp].estado =
                        EstadoTrasAnular(@, procs[p].conKeyfacil, procs[p].gateway)]
  /\ procs' = Set(p, [pc |-> "ac_limpiar"])
  /\ UNCHANGED <<pasajeros, viajes, tickets, encomiendas, eventos, series,
                 notasVenta, hoy, guias>>

\* UPDATE ... SET id_comprobante = NULL WHERE id = origen_id, then the response
AnularComprobanteLimpiar(p) ==
  /\ procs[p].pc = "ac_limpiar"
  /\ IF procs[p].tipoComprobante = "TICKET"
     THEN /\ tickets' = [tickets EXCEPT ![procs[p].origen].idComprobante = 0]
          /\ UNCHANGED encomiendas
     ELSE /\ encomiendas' = [encomiendas EXCEPT ![procs[p].origen].idComprobante = 0]
          /\ UNCHANGED tickets
  /\ procs' = [procs EXCEPT ![p] = Respuesta(@, [status |-> 200, idComp |-> procs[p].idComp,
                                                 conKeyfacil |-> procs[p].conKeyfacil])]
  /\ UNCHANGED <<pasajeros, viajes, eventos, series, comprobantes, notasVenta, hoy, guias>>

(* ------------------------ emitirGuia / anularGuia ---------------------- *)
\* obtenerSiguienteNumero(serie) and INSERT of the PENDIENTE guide
EmitirGuiaNumero(p) ==
  /\ procs[p].pc = "idle"
  /\ LET base == Merge(Idle, [op |-> "emitirGuia", serie |-> "TZ74"])
         fin(e) == [procs EXCEPT ![p] = Respuesta(base, [status |-> 500, error |-> e])]
     IN IF SerieNoEncontrada(series["TZ74"])
        THEN /\ procs' = fin("SERIE_NO_ENCONTRADA")
             /\ UNCHANGED <<series, guias>>
        ELSE LET numero == NumeroSiguiente(series["TZ74"]) IN
             /\ series' = [series EXCEPT !["TZ74"] = numero]
             /\ IF \E g \in Rango(guias) : g.serie = "TZ74" /\ g.numero = numero
                THEN /\ procs' = fin("GUIA_DUPLICADA")
                     /\ UNCHANGED guias
                ELSE /\ guias' = Append(guias, [serie |-> "TZ74", numero |-> numero,
                                                estado |-> "PENDIENTE", keyfacilId |-> FALSE])
                     /\ procs' = [procs EXCEPT ![p] =
                          Merge(base, [pc |-> "gu_enviar", numero |-> numero,
                                       idGuia |-> Len(guias) + 1])]
  /\ UNCHANGED <<pasajeros, viajes, tickets, encomiendas, eventos, comprobantes,
                 notasVenta, hoy>>

\* response.success ? 'ACEPTADA' : 'RECHAZADA'
EstadoGuiaTrasEnvio(gateway) == IF gateway = "OK" THEN "ACEPTADA" ELSE "RECHAZADA"

\* keyfacilService.enviarGuiaRemision, UPDATE of the guide with the answer, response
EmitirGuiaEnviar(p, gateway) ==
  /\ procs[p].pc = "gu_enviar"
  /\ guias' = [guias EXCEPT ![procs[p].idGuia].estado = EstadoGuiaTrasEnvio(gateway),
                            ![procs[p].idGuia].keyfacilId = (gateway = "OK")]
  /\ procs' = [procs EXCEPT ![p] = Respuesta(@, [status |-> 201, gateway |-> gateway,
                                                 idGuia |-> procs[p].idGuia])]
  /\ UNCHANGED <<pasajeros, viajes, tickets, encomiendas, eventos, series,
                 comprobantes, notasVenta, hoy>>

\* SELECT of the guide and the checks on it
AnularGuiaLeer(p, id) ==
  /\ procs[p].pc = "idle"
  /\ LET base == Merge(Idle, [op |-> "anularGuia", idGuia |-> id])
         fin(e) == [procs EXCEPT ![p] = Respuesta(base, [status |-> 500, error |-> e,
                                                         idGuia |-> id])]
     IN IF id \notin 1 .. Len(guias) THEN procs' = fin("GUIA_NO_ENCONTRADA")
        ELSE IF guias[id].estado = "ANULADA" THEN procs' = fin("YA_ANULADA")
        ELSE procs' = [procs EXCEPT ![p] =
               Merge(base, [pc |-> IF guias[id].keyfacilId THEN "ag_gateway" ELSE "ag_update",
                            conKeyfacil |-> guias[id].keyfacilId])]
  /\ UNCHANGED <<pasajeros, viajes, tickets, encomiendas, eventos, series,
                 comprobantes, notasVenta, hoy, guias>>

\* keyfacilService.anularGuiaRemision: a failure is logged and the void goes on
AnularGuiaGateway(p, gateway) ==
  /\ procs[p].pc = "ag_gateway"
  /\ procs' = Set(p, [pc |-> "ag_update", gateway |-> gateway])
  /\ UNCHANGED <<pasajeros, viajes, tickets, encomiendas, eventos, series,
                 comprobantes, notasVenta, hoy, guias>>

\* UPDATE tbl_guias_remision SET estado = 'ANULADA', then the response
AnularGuiaUpdate(p) ==
  /\ procs[p].pc = "ag_update"
  /\ guias' = [guias EXCEPT ![procs[p].idGuia].estado = "ANULADA"]
  /\ procs' = [procs EXCEPT ![p] = Respuesta(@, [status |-> 200, idGuia |-> procs[p].idGuia,
                                                 conKeyfacil |-> procs[p].conKeyfacil])]
  /\ UNCHANGED <<pasajeros, viajes, tickets, encomiendas, eventos, series,
                 comprobantes, notasVenta, hoy>>

(* -------------------------------- anular ------------------------------- *)
\* findUnique of the ticket with its trip, and the check of its state
AnularLeer(p, id) ==
  /\ procs[p].pc = "idle"
  /\ LET base == Merge(Idle, [op |-> "anular", idDoc |-> id])
         fin(s, e) == [procs EXCEPT ![p] = Respuesta(base, [status |-> s, error |-> e])]
     IN IF id \notin 1 .. Len(tickets) THEN procs' = fin(404, "TICKET_NO_ENCONTRADO")
        ELSE IF tickets[id].estado # "EMITIDO" THEN procs' = fin(400, "SOLO_EMITIDOS")
        ELSE procs' = [procs EXCEPT ![p] =
               Merge(base, [pc |-> "an_tx", viajeKey |-> tickets[id].viaje,
                            viajeVendida |-> viajes[tickets[id].viaje].capacidadVendida])]
  /\ UNCHANGED <<pasajeros, viajes, tickets, encomiendas, eventos, series,
                 comprobantes, notasVenta, hoy, guias>>

\* the transaction: UPDATE of the ticket to ANULADO, UPDATE of the trip with
\* Math.max(0, capacidadVendida - 1) of the trip as it was read, COMMIT
AnularEscribir(p) ==
  /\ procs[p].pc = "an_tx"
  /\ tickets' = [tickets EXCEPT ![procs[p].idDoc].estado = "ANULADO"]
  /\ viajes' = [viajes EXCEPT ![procs[p].viajeKey].capacidadVendida =
                  Max(0, procs[p].viajeVendida - 1)]
  /\ procs' = Responder(p, 200, "")
  /\ UNCHANGED <<pasajeros, encomiendas, eventos, series, comprobantes, notasVenta, hoy, guias>>

(* ----------------------------- start states ---------------------------- *)
NingunViaje == [k \in ViajeKeys |->
  [existe |-> FALSE, capacidadTotal |-> 0, capacidadVendida |-> 0, estado |-> ""]]

SeriesSembradas == [k \in SerieKeys |-> 0]

TodosIdle == [p \in Procs |-> Idle]

\* a new request is served by the first free worker
PrimerLibre(p) == \A q \in Procs : q < p => procs[q].pc # "idle"

(* ---------------- specification of the shipment lifecycle -------------- *)
\* One shipment as registrar leaves it: code ENC-<hoy>-00001, from point 1 to
\* point 2, with a security code, paid at registration.
EncomiendaRegistrada ==
  FilaEncomienda(Merge(Idle, [codigo |-> Codigo("ENC", 1, 1), origen |-> 1, destino |-> 2,
                              doc |-> 1, clave |-> 4821, precioOriginal |-> 2000,
                              precioFinal |-> 2000, ganados |-> 2]))

InitShip ==
  /\ pasajeros = [d \in Docs |-> [existe |-> d = 1, disp |-> IF d = 1 THEN 2 ELSE 0,
                                  hist |-> IF d = 1 THEN 2 ELSE 0]]
  /\ viajes = NingunViaje
  /\ tickets = <<>>
  /\ encomiendas = <<EncomiendaRegistrada>>
  /\ eventos = <<EventoRegistrado(1, 1)>>
  /\ series = SeriesSembradas
  /\ comprobantes = <<>>
  /\ notasVenta = <<>>
  /\ guias = <<>>
  /\ hoy = 1
  /\ procs = TodosIdle

ShipCambiarEstadoValidar ==
  \E p \in Procs, id \in 1 .. Len(encomiendas), nuevoEstado \in EstadosSet :
    PrimerLibre(p) /\ CambiarEstadoValidar(p, id, nuevoEstado, 0)

ShipRetirarValidar ==
  \E p \in Procs, id \in 1 .. Len(encomiendas), claveIngresada \in {4821, 1111} :
    PrimerLibre(p) /\ RetirarValidar(p, id, TRUE, TRUE, claveIngresada, "", FALSE, 0)

NextShip ==
  \/ ShipCambiarEstadoValidar
  \/ \E p \in Procs : CambiarEstadoTxLeer(p)
  \/ \E p \in Procs : CambiarEstadoTxEscribir(p)
  \/ ShipRetirarValidar
  \/ \E p \in Procs : RetirarTxLeer(p)
  \/ \E p \in Procs, fotoGuardada \in BOOLEAN : RetirarTxEscribir(p, fotoGuardada)
  \/ \E p \in Procs : Terminar(p)

SpecShip == InitShip /\ [][NextShip]_vars

(* ------------- specification of who may move a shipment ---------------- *)
\* id_punto of the actor: 0 for an actor without a point, 1 and 2 are the origin
\* and the destination of the seeded shipment, 3 is a third point
PuntosActor == {0, 1, 2, 3}

\* claveIngresada: none, the code of the seeded shipment, another code
ClavesIngresadas == {0, 4821, 1111}

\* requests are taken one after the other: the interleavings of two transitions
\* are those of SpecShip
SinOtraEnCurso == \A q \in Procs : procs[q].pc \in {"idle", "done"}

AuthCambiarEstadoValidar ==
  \E p \in Procs, id \in 1 .. Len(encomiendas), nuevoEstado \in EstadosSet,
     userPunto \in PuntosActor :
    /\ PrimerLibre(p)
    /\ SinOtraEnCurso
    /\ CambiarEstadoValidar(p, id, nuevoEstado, userPunto)

AuthRetirarValidar ==
  \E p \in Procs, id \in 1 .. Len(encomiendas), foto \in BOOLEAN,
     claveIngresada \in ClavesIngresadas, userPunto \in PuntosActor :
    /\ PrimerLibre(p)
    /\ SinOtraEnCurso
    /\ RetirarValidar(p, id, TRUE, foto, claveIngresada, "", FALSE, userPunto)

NextAuth ==
  \/ AuthCambiarEstadoValidar
  \/ \E p \in Procs : CambiarEstadoTxLeer(p)
  \/ \E p \in Procs : CambiarEstadoTxEscribir(p)
  \/ AuthRetirarValidar
  \/ \E p \in Procs : RetirarTxLeer(p)
  \/ \E p \in Procs, fotoGuardada \in BOOLEAN : RetirarTxEscribir(p, fotoGuardada)
  \/ \E p \in Procs : Terminar(p)

SpecAuth == InitShip /\ [][NextAuth]_vars

(* ------------- specification of sales and the points ledger ------------ *)
PcsVenta == {"v_viaje", "v_viaje_crear", "v_pasajero", "v_paswrite", "v_codigo", "v_ticket"}
OpsVenta == {"vender", "venderInstantaneo"}
PcsRegistro == {"rg_codigo", "rg_pasajero", "rg_paswrite", "rg_crear"}

VentasEnCurso == Cardinality({p \in Procs : procs[p].pc \in PcsVenta})
RegistrosEnCurso == Cardinality({p \in Procs : procs[p].pc \in PcsRegistro})

\* Customer 1 holds 50 points, all of them earned and none redeemed so far;
\* customer 2 has never bought.
SaldoInicial == 50
PuntosPedidos == 40
PrecioLedger == 2000

InitLedger ==
  /\ pasajeros = [d \in Docs |-> [existe |-> d = 1,
                                  disp |-> IF d = 1 THEN SaldoInicial ELSE 0,
                                  hist |-> IF d = 1 THEN SaldoInicial ELSE 0]]
  /\ viajes = NingunViaje
  /\ tickets = <<>>
  /\ encomiendas = <<>>
  /\ eventos = <<>>
  /\ series = SeriesSembradas
  /\ comprobantes = <<>>
  /\ notasVenta = <<>>
  /\ guias = <<>>
  /\ hoy = 1
  /\ procs = TodosIdle

EntradasLedger == {Entrada(PuntosPedidos), Entrada(-5), EntradaNoNumerica}

LedgerVenderInicio ==
  \E p \in Procs, op \in {"vender", "venderInstantaneo"}, doc \in Docs,
     puntosACanjear \in EntradasLedger :
    /\ PrimerLibre(p)
    /\ Len(tickets) + VentasEnCurso < MaxTickets
    /\ VenderInicio(p, op, doc, puntosACanjear, "VERIFICACION", FALSE,
                    SinPrecioManual, PrecioLedger, PuntosPorSolDescuentoDefault)

LedgerRegistrarInicio ==
  \E p \in Procs, doc \in Docs, puntosACanjear \in EntradasLedger :
    /\ PrimerLibre(p)
    /\ Len(encomiendas) + RegistrosEnCurso < MaxEncomiendas
    /\ RegistrarInicio(p, 1, 2, doc, puntosACanjear, "VERIFICACION", FALSE,
                       FALSE, 0, PrecioLedger, PuntosPorSolDescuentoDefault)

NextLedger ==
  \/ LedgerVenderInicio
  \/ \E p \in Procs : VenderViaje(p)
  \/ \E p \in Procs : VenderViajeCrear(p)
  \/ \E p \in Procs : VenderPasajero(p)
  \/ \E p \in Procs : VenderEscribirPasajero(p)
  \/ \E p \in Procs : VenderCodigo(p)
  \/ \E p \in Procs : VenderTicket(p)
  \/ LedgerRegistrarInicio
  \/ \E p \in Procs : RegistrarCodigo(p)
  \/ \E p \in Procs : RegistrarPasajero(p)
  \/ \E p \in Procs : RegistrarEscribirPasajero(p)
  \/ \E p \in Procs : RegistrarCrear(p)
  \/ \E p \in Procs : EmitirNotaNumero(p)
  \/ \E p \in Procs : EmitirNotaCrear(p)
  \/ \E p \in Procs : Terminar(p)

SpecLedger == InitLedger /\ [][NextLedger]_vars

(* ------------------ specification of the price of a sale --------------- *)
\* One sale or registration at a time, over the balances, prices, ratios,
\* requested redemptions and manual prices a request can carry.
Saldos == {0, 50, 3000}
Precios == {500, 2000, 10000}
Ratios == {50, 100, 300, 1000}
EntradasPrecio ==
  {SinEntrada, Entrada(40), Entrada(50), Entrada(5000), Entrada(-5), EntradaNoNumerica}

\* req.body.precioManual in thousandths of a sol
PrecioManual(m) == [presente |-> TRUE, milesimas |-> m]
PreciosManuales ==
  {SinPrecioManual, PrecioManual(1234), PrecioManual(8996), PrecioManual(150000), PrecioManual(-3000)}

InitPrecio ==
  /\ \E saldo \in Saldos :
       pasajeros = [d \in Docs |-> [existe |-> d = 1,
                                    disp |-> IF d = 1 THEN saldo ELSE 0,
                                    hist |-> IF d = 1 THEN saldo ELSE 0]]
  /\ viajes = NingunViaje
  /\ tickets = <<>>
  /\ encomiendas = <<>>
  /\ eventos = <<>>
  /\ series = SeriesSembradas
  /\ comprobantes = <<>>
  /\ notasVenta = <<>>
  /\ guias = <<>>
  /\ hoy = 1
  /\ procs = TodosIdle

SinVentaPrevia == Len(tickets) = 0 /\ Len(encomiendas) = 0

PrecioVenderInicio ==
  \E p \in Procs, op \in {"vender", "venderInstantaneo"}, doc \in Docs, puntosACanjear \in EntradasPrecio, precioManual \in PreciosManuales, precio \in Precios, puntosPorSolDescuento \in Ratios :
    /\ PrimerLibre(p) /\ SinOtraEnCurso /\ SinVentaPrevia
    /\ VenderInicio(p, op, doc, puntosACanjear, "VERIFICACION", FALSE, precioManual, precio, puntosPorSolDescuento)

PrecioRegistrarInicio ==
  \E p \in Procs, doc \in Docs, puntosACanjear \in EntradasPrecio, precio \in Precios, puntosPorSolDescuento \in Ratios :
    /\ PrimerLibre(p) /\ SinOtraEnCurso /\ SinVentaPrevia
    /\ RegistrarInicio(p, 1, 2, doc, puntosACanjear, "VERIFICACION", FALSE, FALSE, 0, precio, puntosPorSolDescuento)

NextPrecio ==
  \/ PrecioVenderInicio
  \/ \E p \in Procs : VenderViaje(p)
  \/ \E p \in Procs : VenderViajeCrear(p)
  \/ \E p \in Procs : VenderPasajero(p)
  \/ \E p \in Procs : VenderEscribirPasajero(p)
  \/ \E p \in Procs : VenderCodigo(p)
  \/ \E p \in Procs : VenderTicket(p)
  \/ PrecioRegistrarInicio
  \/ \E p \in Procs : RegistrarCodigo(p)
  \/ \E p \in Procs : RegistrarPasajero(p)
  \/ \E p \in Procs : RegistrarEscribirPasajero(p)
  \/ \E p \in Procs : RegistrarCrear(p)
  \/ \E p \in Procs : EmitirNotaNumero(p)
  \/ \E p \in Procs : EmitirNotaCrear(p)
  \/ \E p \in Procs : Terminar(p)

SpecPrecio == InitPrecio /\ [][NextPrecio]_vars

(* ---------------- specification of invoice emission -------------------- *)
\* a shipment to be paid on collection that has arrived at its destination
EncomiendaPorCobrar ==
  [EncomiendaRegistrada EXCEPT !.estadoActual = "LLEGO_A_DESTINO", !.pagoAlRecojo = TRUE]

EventosHastaLlegada ==
  <<EventoRegistrado(1, 1),
    [idEnc |-> 1, estadoDestino |-> "EN_ALMACEN", punto |-> 1, dniRetiro |-> FALSE, foto |-> FALSE],
    [idEnc |-> 1, estadoDestino |-> "EN_RUTA", punto |-> 1, dniRetiro |-> FALSE, foto |-> FALSE],
    [idEnc |-> 1, estadoDestino |-> "LLEGO_A_DESTINO", punto |-> 2, dniRetiro |-> FALSE, foto |-> FALSE]>>

\* The scheduled trip is open; the series of boletas and sale notes are seeded,
\* the series of facturas has no row.
InitInvoice ==
  /\ pasajeros = [d \in Docs |-> [existe |-> d = 1, disp |-> IF d = 1 THEN 2 ELSE 0,
                                  hist |-> IF d = 1 THEN 2 ELSE 0]]
  /\ viajes = [NingunViaje EXCEPT !["PROG"] =
                 [existe |-> TRUE, capacidadTotal |-> CapacidadHorario,
                  capacidadVendida |-> 0, estado |-> "ABIERTO"]]
  /\ tickets = <<>>
  /\ encomiendas = <<EncomiendaPorCobrar>>
  /\ eventos = EventosHastaLlegada
  /\ series = [SeriesSembradas EXCEPT !["FT74"] = -1]
  /\ comprobantes = <<>>
  /\ notasVenta = <<>>
  /\ guias = <<>>
  /\ hoy = 1
  /\ procs = TodosIdle

GATEWAY == {"OK", "RECHAZO", "INALCANZABLE"}

InvoiceVenderInicio ==
  \E p \in Procs, tipoDocumento \in {"BOLETA", "FACTURA"} :
    /\ PrimerLibre(p)
    /\ Len(tickets) + VentasEnCurso < MaxFacturados
    /\ VenderInicio(p, "vender", 1, SinEntrada, tipoDocumento, TRUE,
                    SinPrecioManual, PrecioLedger, PuntosPorSolDescuentoDefault)

InvoiceRegistrarInicio ==
  \E p \in Procs :
    /\ PrimerLibre(p)
    /\ Len(encomiendas) + RegistrosEnCurso <= MaxFacturados
    /\ RegistrarInicio(p, 1, 2, 1, SinEntrada, "BOLETA", FALSE, FALSE, 0, PrecioLedger,
                       PuntosPorSolDescuentoDefault)

InvoiceRetirarValidar ==
  \E p \in Procs, tipoComprobante \in {"BOLETA", "FACTURA"}, facturaOk \in BOOLEAN :
    /\ PrimerLibre(p)
    /\ RetirarValidar(p, 1, TRUE, TRUE, 4821, tipoComprobante, facturaOk, 0)

NextInvoice ==
  \/ InvoiceVenderInicio
  \/ \E p \in Procs : VenderViaje(p)
  \/ \E p \in Procs : VenderPasajero(p)
  \/ \E p \in Procs : VenderEscribirPasajero(p)
  \/ \E p \in Procs : VenderCodigo(p)
  \/ \E p \in Procs : VenderTicket(p)
  \/ InvoiceRegistrarInicio
  \/ \E p \in Procs : RegistrarCodigo(p)
  \/ \E p \in Procs : RegistrarPasajero(p)
  \/ \E p \in Procs : RegistrarEscribirPasajero(p)
  \/ \E p \in Procs : RegistrarCrear(p)
  \/ InvoiceRetirarValidar
  \/ \E p \in Procs : RetirarTxLeer(p)
  \/ \E p \in Procs : RetirarTxEscribir(p, TRUE)
  \/ \E p \in Procs : EmitirNumero(p)
  \/ \E p \in Procs, gateway \in GATEWAY : EmitirEnviar(p, gateway)
  \/ \E p \in Procs : EmitirVincular(p)
  \/ \E p \in Procs : Terminar(p)

SpecInvoice == InitInvoice /\ [][NextInvoice]_vars

(* ---------------- specification of document numbering ----------------- *)
MaxComprobantes == 2
MaxGuias == 2
CapacidadDocs == 2

PcsEmitirDesde == {"ed_vigente", "em_numero", "em_enviar", "em_vincular"}
EmisionesEnCurso == Cardinality({p \in Procs : procs[p].pc \in PcsEmitirDesde})

\* The scheduled trip is open with two seats; one shipment is registered; every
\* series is seeded; no document has been emitted.
InitDocs ==
  /\ pasajeros = [d \in Docs |-> [existe |-> d = 1, disp |-> IF d = 1 THEN 2 ELSE 0,
                                  hist |-> IF d = 1 THEN 2 ELSE 0]]
  /\ viajes = [NingunViaje EXCEPT !["PROG"] =
                 [existe |-> TRUE, capacidadTotal |-> CapacidadDocs,
                  capacidadVendida |-> 0, estado |-> "ABIERTO"]]
  /\ tickets = <<>>
  /\ encomiendas = <<EncomiendaRegistrada>>
  /\ eventos = <<EventoRegistrado(1, 1)>>
  /\ series = SeriesSembradas
  /\ comprobantes = <<>>
  /\ notasVenta = <<>>
  /\ guias = <<>>
  /\ hoy = 1
  /\ procs = TodosIdle

DocsVenderInicio ==
  \E p \in Procs :
    /\ PrimerLibre(p)
    /\ Len(tickets) + VentasEnCurso < MaxTickets
    /\ VenderInicio(p, "vender", 1, SinEntrada, "VERIFICACION", FALSE,
                    SinPrecioManual, PrecioLedger, PuntosPorSolDescuentoDefault)

DocsEmitirDesdeInicio ==
  \E p \in Procs, op \in OpsEmitirDesde, id \in 1 .. 1 :
    /\ PrimerLibre(p)
    /\ Len(comprobantes) + EmisionesEnCurso < MaxComprobantes
    /\ EmitirDesdeInicio(p, op, id, "BT74")

DocsEmitirGuiaNumero ==
  \E p \in Procs :
    /\ PrimerLibre(p)
    /\ Len(guias) < MaxGuias
    /\ EmitirGuiaNumero(p)

NextDocs ==
  \/ DocsVenderInicio
  \/ \E p \in Procs : VenderViaje(p)
  \/ \E p \in Procs : VenderPasajero(p)
  \/ \E p \in Procs : VenderEscribirPasajero(p)
  \/ \E p \in Procs : VenderCodigo(p)
  \/ \E p \in Procs : VenderTicket(p)
  \/ \E p \in Procs : EmitirNotaNumero(p)
  \/ \E p \in Procs : EmitirNotaCrear(p)
  \/ DocsEmitirDesdeInicio
  \/ \E p \in Procs : EmitirDesdeVerificar(p)
  \/ \E p \in Procs : EmitirNumero(p)
  \/ \E p \in Procs, gateway \in GATEWAY : EmitirEnviar(p, gateway)
  \/ \E p \in Procs : EmitirVincular(p)
  \/ DocsEmitirGuiaNumero
  \/ \E p \in Procs, gateway \in GATEWAY : EmitirGuiaEnviar(p, gateway)
  \/ \E p \in Procs : Terminar(p)

SpecDocs == InitDocs /\ [][NextDocs]_vars

(* ------------- specification of invoices on request and voids --------- *)
\* a ticket as vender leaves it when its document could not be emitted
TicketVendido ==
  [codigo |-> Codigo("TKT", 1, 1), viaje |-> "PROG", doc |-> 1, estado |-> "EMITIDO",
   precioOriginal |-> 2000, precioFinal |-> 2000, ganados |-> 2, usados |-> 0,
   descuento |-> 0, invoiceStatus |-> "PENDIENTE", idComprobante |-> 0, idNotaVenta |-> 0]

\* One ticket is sold on the scheduled trip and one shipment is registered,
\* neither has an invoice; every series is seeded.
InitAnular ==
  /\ pasajeros = [d \in Docs |-> [existe |-> d = 1, disp |-> IF d = 1 THEN 4 ELSE 0,
                                  hist |-> IF d = 1 THEN 4 ELSE 0]]
  /\ viajes = [NingunViaje EXCEPT !["PROG"] =
                 [existe |-> TRUE, capacidadTotal |-> CapacidadDocs,
                  capacidadVendida |-> 1, estado |-> "ABIERTO"]]
  /\ tickets = <<TicketVendido>>
  /\ encomiendas = <<EncomiendaRegistrada>>
  /\ eventos = <<EventoRegistrado(1, 1)>>
  /\ series = SeriesSembradas
  /\ comprobantes = <<>>
  /\ notasVenta = <<>>
  /\ guias = <<>>
  /\ hoy = 1
  /\ procs = TodosIdle

AnularEmitirDesdeInicio ==
  \E p \in Procs, op \in OpsEmitirDesde, id \in 1 .. 2 :
    /\ PrimerLibre(p)
    /\ Len(comprobantes) + EmisionesEnCurso < MaxComprobantes
    /\ EmitirDesdeInicio(p, op, id, "BT74")

AnularAnularComprobanteLeer ==
  \E p \in Procs, id \in 1 .. MaxComprobantes :
    /\ PrimerLibre(p)
    /\ AnularComprobanteLeer(p, id)

NextAnular ==
  \/ AnularEmitirDesdeInicio
  \/ \E p \in Procs : EmitirDesdeVerificar(p)
  \/ \E p \in Procs : EmitirNumero(p)
  \/ \E p \in Procs, gateway \in GATEWAY : EmitirEnviar(p, gateway)
  \/ \E p \in Procs : EmitirVincular(p)
  \/ AnularAnularComprobanteLeer
  \/ \E p \in Procs, gateway \in GATEWAY : AnularComprobanteGateway(p, gateway)
  \/ \E p \in Procs : AnularComprobanteUpdate(p)
  \/ \E p \in Procs : AnularComprobanteLimpiar(p)
  \/ \E p \in Procs : Terminar(p)

SpecAnular == InitAnular /\ [][NextAnular]_vars

(* ---------------- specification of the voiding of documents ------------ *)
MaxAnulables == 1

VoidEmitirDesdeInicio ==
  \E p \in Procs :
    /\ PrimerLibre(p)
    /\ Len(comprobantes) + EmisionesEnCurso < MaxAnulables
    /\ EmitirDesdeInicio(p, "emitirDesdeEncomienda", 1, "BT74")

VoidAnularComprobanteLeer ==
  \E p \in Procs, id \in 1 .. MaxAnulables :
    /\ PrimerLibre(p)
    /\ AnularComprobanteLeer(p, id)

VoidEmitirGuiaNumero ==
  \E p \in Procs :
    /\ PrimerLibre(p)
    /\ Len(guias) < MaxAnulables
    /\ EmitirGuiaNumero(p)

VoidAnularGuiaLeer ==
  \E p \in Procs, id \in 1 .. MaxAnulables :
    /\ PrimerLibre(p)
    /\ AnularGuiaLeer(p, id)

NextVoid ==
  \/ VoidEmitirDesdeInicio
  \/ \E p \in Procs : EmitirDesdeVerificar(p)
  \/ \E p \in Procs : EmitirNumero(p)
  \/ \E p \in Procs, gateway \in GATEWAY : EmitirEnviar(p, gateway)
  \/ \E p \in Procs : EmitirVincular(p)
  \/ VoidAnularComprobanteLeer
  \/ \E p \in Procs, gateway \in GATEWAY : AnularComprobanteGateway(p, gateway)
  \/ \E p \in Procs : AnularComprobanteUpdate(p)
  \/ \E p \in Procs : AnularComprobanteLimpiar(p)
  \/ VoidEmitirGuiaNumero
  \/ \E p \in Procs, gateway \in GATEWAY : EmitirGuiaEnviar(p, gateway)
  \/ VoidAnularGuiaLeer
  \/ \E p \in Procs, gateway \in GATEWAY : AnularGuiaGateway(p, gateway)
  \/ \E p \in Procs : AnularGuiaUpdate(p)
  \/ \E p \in Procs : Terminar(p)

SpecVoid == InitAnular /\ [][NextVoid]_vars

(* ------------- specification of the codes, one request at a time ------ *)
MaxCodigos == 3
MaxDias == 2

\* getFechaPeruYYYYMMDD() returns the next day from midnight in Lima on
PasarDia ==
  /\ hoy < MaxDias
  /\ hoy' = hoy + 1
  /\ UNCHANGED <<pasajeros, viajes, tickets, encomiendas, eventos, series,
                 comprobantes, notasVenta, guias, procs>>

CodigoVenderInicio ==
  \E p \in Procs :
    /\ PrimerLibre(p)
    /\ SinOtraEnCurso
    /\ Len(tickets) < MaxCodigos
    /\ VenderInicio(p, "venderInstantaneo", 1, SinEntrada, "VERIFICACION", FALSE,
                    SinPrecioManual, PrecioLedger, PuntosPorSolDescuentoDefault)

CodigoRegistrarInicio ==
  \E p \in Procs :
    /\ PrimerLibre(p)
    /\ SinOtraEnCurso
    /\ Len(encomiendas) < MaxCodigos
    /\ RegistrarInicio(p, 1, 2, 2, SinEntrada, "VERIFICACION", FALSE,
                       FALSE, 0, PrecioLedger, PuntosPorSolDescuentoDefault)

NextCodigo ==
  \/ PasarDia
  \/ CodigoVenderInicio
  \/ \E p \in Procs : VenderViaje(p)
  \/ \E p \in Procs : VenderViajeCrear(p)
  \/ \E p \in Procs : VenderPasajero(p)
  \/ \E p \in Procs : VenderEscribirPasajero(p)
  \/ \E p \in Procs : VenderCodigo(p)
  \/ \E p \in Procs : VenderTicket(p)
  \/ CodigoRegistrarInicio
  \/ \E p \in Procs : RegistrarCodigo(p)
  \/ \E p \in Procs : RegistrarPasajero(p)
  \/ \E p \in Procs : RegistrarEscribirPasajero(p)
  \/ \E p \in Procs : RegistrarCrear(p)
  \/ \E p \in Procs : EmitirNotaNumero(p)
  \/ \E p \in Procs : EmitirNotaCrear(p)
  \/ \E p \in Procs : Terminar(p)

SpecCodigo == InitLedger /\ [][NextCodigo]_vars

(* ------------- specification of the seats of a trip -------------------- *)
\* The scheduled trip is open with a single seat, none sold; the instant trip
\* does not exist yet.
InitAforo ==
  /\ pasajeros = [d \in Docs |-> [existe |-> d = 1, disp |-> 0, hist |-> 0]]
  /\ viajes = [NingunViaje EXCEPT !["PROG"] =
                 [existe |-> TRUE, capacidadTotal |-> CapacidadHorario,
                  capacidadVendida |-> 0, estado |-> "ABIERTO"]]
  /\ tickets = <<>>
  /\ encomiendas = <<>>
  /\ eventos = <<>>
  /\ series = SeriesSembradas
  /\ comprobantes = <<>>
  /\ notasVenta = <<>>
  /\ guias = <<>>
  /\ hoy = 1
  /\ procs = TodosIdle

AforoVenderInicio ==
  \E p \in Procs, op \in OpsVenta :
    /\ PrimerLibre(p)
    /\ Len(tickets) + VentasEnCurso < MaxTickets
    /\ VenderInicio(p, op, 1, SinEntrada, "VERIFICACION", FALSE,
                    SinPrecioManual, PrecioLedger, PuntosPorSolDescuentoDefault)

AforoAnularLeer ==
  \E p \in Procs, id \in 1 .. MaxTickets :
    /\ PrimerLibre(p)
    /\ AnularLeer(p, id)

NextAforo ==
  \/ AforoVenderInicio
  \/ \E p \in Procs : VenderViaje(p)
  \/ \E p \in Procs : VenderViajeCrear(p)
  \/ \E p \in Procs : VenderPasajero(p)
  \/ \E p \in Procs : VenderEscribirPasajero(p)
  \/ \E p \in Procs : VenderCodigo(p)
  \/ \E p \in Procs : VenderTicket(p)
  \/ \E p \in Procs : EmitirNotaNumero(p)
  \/ \E p \in Procs : EmitirNotaCrear(p)
  \/ AforoAnularLeer
  \/ \E p \in Procs : AnularEscribir(p)
  \/ \E p \in Procs : Terminar(p)

SpecAforo == InitAforo /\ [][NextAforo]_vars

(* ----------------- claims on codes, points and atomicity --------------- *)
PcsEmision == {"em_numero", "em_enviar", "em_vincular", "em_nota_numero", "em_nota"}

\* sequence numbers of the ticket codes issued for the day, as integers
SecuencialesTickets == {ParseInt(t.codigo.sec) : t \in Rango(tickets)}

\* C1: concurrent code allocations never fail on the unique index, and the
\* codes stored for the day are distinct and successive without gaps.
C1_CodigosSinFalloNiHueco ==
  /\ \A p \in Procs : ~(procs[p].pc = "done" /\ procs[p].error = "CODIGO_DUPLICADO")
  /\ \A i, j \in 1 .. Len(tickets) : i # j => tickets[i].codigo # tickets[j].codigo
  /\ SecuencialesTickets = 1 .. Len(tickets)

RECURSIVE SumaUsados(_, _)
SumaUsados(filas, d) ==
  IF Len(filas) = 0 THEN 0
  ELSE (IF filas[1].doc = d THEN filas[1].usados ELSE 0) + SumaUsados(Tail(filas), d)

\* points redeemed by the committed sales and registrations of a customer
TotalCanjeado(d) == SumaUsados(tickets, d) + SumaUsados(encomiendas, d)

\* C3: under concurrent redemptions the points redeemed by a customer in total
\* never exceed the points the customer has held, and the balance is never negative.
C3_CanjeDentroDelSaldo ==
  \A d \in Docs :
    /\ TotalCanjeado(d) <= pasajeros[d].hist
    /\ pasajeros[d].disp >= 0

\* C4: in every state, for every customer, the available points do not exceed
\* the historic points.
C4_DisponiblesNoSuperanHistoricos ==
  \A d \in Docs : pasajeros[d].disp <= pasajeros[d].hist

C4_Testigo ==
  \E d \in Docs :
    /\ pasajeros[d].disp < pasajeros[d].hist
    /\ pasajeros[d].hist > SaldoInicial
    /\ TotalCanjeado(d) > 0

\* the row a committed sale or registration wrote
FilaDe(p) ==
  IF procs[p].op = "registrar" THEN encomiendas[procs[p].idDoc] ELSE tickets[procs[p].idDoc]

\* what the request asked to redeem, read as the claim reads it
PuntosPedidosPor(p) ==
  IF procs[p].entrada.esNumero /\ procs[p].entrada.valor > 0
  THEN procs[p].entrada.valor ELSE 0

VentaConfirmada(p) ==
  /\ procs[p].pc \in PcsEmision
  /\ procs[p].op \in OpsVenta \cup {"registrar"}

\* C5: the points redeemed by a committed sale are the smaller of the points
\* requested (0 for a negative or non-numeric request) and the available points
\* read in the same transaction, and no stored balance is below zero.
C5_CanjeEsElMinimo ==
  /\ \A p \in Procs :
       VentaConfirmada(p) =>
         LET u == FilaDe(p).usados IN
         /\ u <= PuntosPedidosPor(p)
         /\ u <= procs[p].dispLeido
         /\ u = PuntosPedidosPor(p) \/ u = procs[p].dispLeido
  /\ \A d \in Docs : pasajeros[d].disp >= 0

C5_Testigo ==
  \E p \in Procs :
    /\ VentaConfirmada(p)
    /\ procs[p].dispLeido > 0
    /\ PuntosPedidosPor(p) > procs[p].dispLeido
    /\ FilaDe(p).usados = procs[p].dispLeido

\* C6: a step of a sale or registration transaction either commits everything
\* (customer, trip with its sold count, ticket; or customer, shipment and its
\* REGISTRADO event) or leaves customers, trips, tickets, shipments and events
\* untouched.
C6_TodoONada ==
  [][\A p \in Procs :
       (procs[p].pc \in PcsVenta \cup PcsRegistro /\ procs'[p] # procs[p]) =>
         IF procs[p].pc = "v_ticket" /\ procs'[p].pc \in PcsEmision
         THEN /\ Len(tickets') = Len(tickets) + 1
              /\ tickets'[Len(tickets')].doc = procs[p].doc
              /\ pasajeros'[procs[p].doc].existe
              /\ pasajeros'[procs[p].doc].hist >= procs[p].ganados
              /\ viajes'[procs[p].viajeKey].existe
              /\ viajes'[procs[p].viajeKey].capacidadVendida = procs[p].viajeVendida + 1
              /\ UNCHANGED <<encomiendas, eventos>>
         ELSE IF procs[p].pc = "rg_crear" /\ procs'[p].pc \in PcsEmision
         THEN /\ Len(encomiendas') = Len(encomiendas) + 1
              /\ encomiendas'[Len(encomiendas')].doc = procs[p].doc
              /\ pasajeros'[procs[p].doc].existe
              /\ pasajeros'[procs[p].doc].hist >= procs[p].ganados
              /\ Len(eventos') = Len(eventos) + 1
              /\ eventos'[Len(eventos')] = EventoRegistrado(Len(encomiendas'), procs[p].origen)
              /\ UNCHANGED <<viajes, tickets>>
         ELSE UNCHANGED nucleo]_vars

\* a sale of the new customer 2 failed after its customer and trip writes: the
\* only ticket is customer 1's, and neither customer 2 nor a second trip exists
C6_Testigo ==
  \E p \in Procs :
    /\ procs[p].pc = "done"
    /\ procs[p].op \in OpsVenta
    /\ procs[p].error = "CODIGO_DUPLICADO"
    /\ Len(tickets) = 1
    /\ tickets[1].doc = 1
    /\ ~pasajeros[2].existe
    /\ \E k \in ViajeKeys : ~viajes[k].existe

(* --------------------- claims on invoice emission ---------------------- *)
\* a ticket or shipment row without the columns the emission is allowed to set
SinFacturacion(fila) ==
  [fila EXCEPT !.invoiceStatus = "", !.idComprobante = 0, !.idNotaVenta = 0]

\* the request that is emitting has its ticket, shipment or collection committed
EmisionTrasCommit(p) ==
  IF procs[p].op \in OpsVenta
  THEN /\ procs[p].idDoc \in 1 .. Len(tickets)
       /\ tickets[procs[p].idDoc].codigo = procs[p].codigo
  ELSE IF procs[p].op = "registrar"
  THEN /\ procs[p].idDoc \in 1 .. Len(encomiendas)
       /\ encomiendas[procs[p].idDoc].codigo = procs[p].codigo
  ELSE \E i \in 1 .. Len(eventos) :
         /\ eventos[i].idEnc = procs[p].idDoc
         /\ eventos[i].estadoDestino = "RETIRADO"

\* the emission of the request ended without an accepted invoice
EmisionFallida(p) ==
  /\ procs[p].pc = "done"
  /\ procs[p].op \in OpsVenta \cup {"registrar", "retirar"}
  /\ procs[p].comprobanteError \/ procs[p].gateway \in {"RECHAZO", "INALCANZABLE"}

C8_GatewayInalcanzableDaError ==
  \A p \in Procs :
    (/\ procs[p].pc = "done"
     /\ procs[p].op \in OpsVenta
     /\ procs[p].gateway = "INALCANZABLE") =>
      /\ tickets[procs[p].idDoc].invoiceStatus = "ERROR"
      /\ procs[p].invoiceStatus = "ERROR"

(* ------------------ claims on who may move a shipment ------------------ *)
\* the request p starts in this step as operation op on an existing shipment
Recibe(p, op) ==
  /\ procs[p].pc = "idle"
  /\ procs'[p].pc # "idle"
  /\ procs'[p].op = op
  /\ procs'[p].idEnc \in 1 .. Len(encomiendas)

\* the request p is refused in this step with status s
Rechaza(p, s) == procs'[p].pc = "done" /\ procs'[p].status = s

\* the actor of request p is bound to a point that is neither the origin nor
\* the destination of the shipment
ActorAjeno(r) ==
  /\ r.userPunto # 0
  /\ r.userPunto # encomiendas[r.idEnc].origen
  /\ r.userPunto # encomiendas[r.idEnc].destino

\* C11: a cambiarEstado request of an actor bound to a point other than the
\* origin and the destination of the shipment is refused with 403 and changes
\* neither status nor events; every cambiarEstado step that changes a shipment
\* or the events belongs to an actor without a point or of origin or destination.
C11_SoloOrigenODestino ==
  [][\A p \in Procs :
       /\ (Recibe(p, "cambiarEstado") /\ procs'[p].nuevoEstado \in EstadosSet
           /\ ActorAjeno(procs'[p]))
            => (Rechaza(p, 403) /\ UNCHANGED <<encomiendas, eventos>>)
       /\ (procs[p].op = "cambiarEstado" /\ procs'[p] # procs[p]
           /\ <<encomiendas, eventos>>' # <<encomiendas, eventos>>)
            => ~ActorAjeno(procs[p])]_vars

\* both cases have happened: a refusal of an actor of point 3, and a change
\* to EN_ALMACEN committed at the origin
C11_Testigo ==
  /\ \E p \in Procs :
       /\ procs[p].pc = "done" /\ procs[p].op = "cambiarEstado"
       /\ procs[p].status = 403 /\ procs[p].userPunto = 3
  /\ \E i \in 1 .. Len(eventos) :
       eventos[i].estadoDestino = "EN_ALMACEN" /\ eventos[i].punto = 1

(* ---------------------- claims on who may collect ---------------------- *)
\* the retirar request p changes a shipment or the events in this step
RetiroEscribe(p) ==
  /\ procs[p].op = "retirar"
  /\ procs'[p] # procs[p]
  /\ <<encomiendas, eventos>>' # <<encomiendas, eventos>>

\* the retirar request p is refused on arrival and nothing is written
RetiroRechazado(p) ==
  /\ procs'[p].pc = "done"
  /\ procs'[p].status >= 400
  /\ UNCHANGED <<encomiendas, eventos>>

\* C12 (as stated): only an actor bound to the destination point collects; a
\* retirar request of any other actor is refused and changes neither status
\* nor events.
C12_SoloActorDeDestino ==
  [][\A p \in Procs :
       /\ (Recibe(p, "retirar")
           /\ procs'[p].userPunto # encomiendas[procs'[p].idEnc].destino)
            => RetiroRechazado(p)
       /\ RetiroEscribe(p)
            => procs[p].userPunto = encomiendas[procs[p].idEnc].destino]_vars

\* C12 (amended): only an actor bound to the destination point or bound to no
\* point collects; a retirar request of an actor bound to any other point,
\* the origin included, is refused (with 403 once the photo is present and the
\* shipment has arrived) and changes neither status nor events.
C12_SoloDestinoOSinPunto ==
  [][\A p \in Procs :
       /\ (Recibe(p, "retirar")
           /\ procs'[p].userPunto \notin {0, encomiendas[procs'[p].idEnc].destino})
            => /\ RetiroRechazado(p)
               /\ \/ procs'[p].status = 403
                  \/ procs'[p].error \in {"FOTO_REQUERIDA", "NO_LLEGO_A_DESTINO"}
       /\ RetiroEscribe(p)
            => procs[p].userPunto \in {0, encomiendas[procs[p].idEnc].destino}]_vars

\* an actor of the origin has been refused with 403, and the shipment has
\* then been collected
C12_Testigo ==
  /\ \E p \in Procs :
       /\ procs[p].pc = "done" /\ procs[p].op = "retirar"
       /\ procs[p].status = 403 /\ procs[p].userPunto = 1
  /\ \E p \in Procs :
       /\ procs[p].pc = "done" /\ procs[p].op = "retirar"
       /\ procs[p].status = 200
       /\ encomiendas[procs[p].idEnc].estadoActual = "RETIRADO"

(* ---------------------- claims on the security code -------------------- *)
\* the retirar request p arrives in this step for a shipment that has arrived
\* and carries a security code, from an actor allowed to collect it
LlegaRetiroConClave(p) ==
  /\ Recibe(p, "retirar")
  /\ LET enc == encomiendas[procs'[p].idEnc]
     IN /\ enc.estadoActual = "LLEGO_A_DESTINO"
        /\ enc.clave # 0
        /\ procs'[p].userPunto \in {0, enc.destino}

\* C13: for an arrived shipment with a security code, a retirar without code
\* is refused with 400 "code required" and one with a different code with 400
\* "code incorrect" (a request without photo is refused with 400 before the
\* code is looked at), and neither changes status or events; a retirar with
\* the exact code and a photo is accepted, and its answer is 200 with the
\* shipment RETIRADO unless the photo could not be stored.
C13_ClaveDeSeguridad ==
  [][\A p \in Procs :
       /\ LlegaRetiroConClave(p) =>
            LET r == procs'[p]
                clave == encomiendas[r.idEnc].clave
                conFoto == ~(r.pc = "done" /\ r.error = "FOTO_REQUERIDA")
            IN /\ r.claveIngresada # clave =>
                    /\ Rechaza(p, 400)
                    /\ UNCHANGED <<encomiendas, eventos>>
               /\ (conFoto /\ r.claveIngresada = 0) => r.error = "CLAVE_REQUERIDA"
               /\ (conFoto /\ r.claveIngresada \notin {0, clave}) => r.error = "CLAVE_INCORRECTA"
               /\ (conFoto /\ r.claveIngresada = clave) => r.pc = "rt_tx"
       /\ (procs[p].op = "retirar" /\ procs[p].pc = "rt_escribir" /\ procs'[p] # procs[p]) =>
            /\ procs[p].claveIngresada = encomiendas[procs[p].idEnc].clave
            /\ procs'[p].pc = "done"
            /\ \/ /\ procs'[p].status = 200
                  /\ encomiendas'[procs[p].idEnc].estadoActual = "RETIRADO"
                  /\ Len(eventos') = Len(eventos) + 1
               \/ /\ procs'[p].status = 500 /\ procs'[p].error = "ERROR_FOTO"
                  /\ UNCHANGED <<encomiendas, eventos>>]_vars

\* the three answers have been given: code required, code incorrect, and a
\* collection with the exact code
C13_Testigo ==
  /\ encomiendas[1].estadoActual = "RETIRADO"
  /\ \E p \in Procs :
       /\ procs[p].pc = "done" /\ procs[p].op = "retirar" /\ procs[p].status = 200
       /\ procs[p].claveIngresada = encomiendas[1].clave
  /\ \E p \in Procs :
       /\ procs[p].pc = "done" /\ procs[p].op = "retirar" /\ procs[p].status = 400
       /\ procs[p].error \in {"CLAVE_REQUERIDA", "CLAVE_INCORRECTA"}

\* a collection without code has been refused while the shipment waits
C13_TestigoSinClave ==
  \E p \in Procs :
    /\ procs[p].pc = "done" /\ procs[p].error = "CLAVE_REQUERIDA"
    /\ encomiendas[1].estadoActual = "LLEGO_A_DESTINO"

(* ------------------- claims on the shipment lifecycle ------------------ *)
\* targetStatus values of the events of shipment id, in creation order
RECURSIVE EstadosDeEventos(_, _)
EstadosDeEventos(evs, id) ==
  IF Len(evs) = 0 THEN <<>>
  ELSE IF evs[1].idEnc = id
       THEN <<evs[1].estadoDestino>> \o EstadosDeEventos(Tail(evs), id)
       ELSE EstadosDeEventos(Tail(evs), id)

Transiciona(p) == procs[p].op \in {"cambiarEstado", "retirar"}

\* two finished requests that validated against the same state of the same shipment
MismoEstadoObservado(p, q) ==
  /\ p # q
  /\ Transiciona(p) /\ Transiciona(q)
  /\ procs[p].pc = "done" /\ procs[q].pc = "done"
  /\ procs[p].eventosObs > 0
  /\ procs[p].idEnc = procs[q].idEnc
  /\ procs[p].eventosObs = procs[q].eventosObs

\* C2: of two transition requests on the same shipment that ran from the same
\* observed status, exactly one commits (200) and the other is answered 409;
\* never do both commit.
C2_ExactamenteUnoGana ==
  \A p, q \in Procs :
    (MismoEstadoObservado(p, q) /\ procs[p].status = 200) => procs[q].status = 409

\* C9: the events of every shipment, in creation order, carry a prefix of
\* REGISTRADO, EN_ALMACEN, EN_RUTA, LLEGO_A_DESTINO, RETIRADO.
C9_EventosSonPrefijo ==
  \A id \in 1 .. Len(encomiendas) :
    LET es == EstadosDeEventos(eventos, id)
    IN /\ Len(es) <= Len(ESTADOS_VALIDOS)
       /\ es = SubSeq(ESTADOS_VALIDOS, 1, Len(es))

\* the one successor of a status in the forward chain, "" for the last one
Sucesor(estado) ==
  IF \E i \in 1 .. Len(ESTADOS_VALIDOS) - 1 : ESTADOS_VALIDOS[i] = estado
  THEN ESTADOS_VALIDOS[(CHOOSE i \in 1 .. Len(ESTADOS_VALIDOS) - 1 : ESTADOS_VALIDOS[i] = estado) + 1]
  ELSE ""

\* a step in which a cambiarEstado request is refused at validation
RechazoCambiarEstado(p) ==
  /\ procs[p].pc = "idle"
  /\ procs'[p].pc = "done"
  /\ procs'[p].op = "cambiarEstado"
  /\ procs'[p].status = 400

\* C10: the stored status of a shipment only moves to its one successor in the
\* chain (RETIRADO has none), and a refused cambiarEstado request leaves the
\* status and the events as they were.
C10_SoloAvanza ==
  [][/\ \A id \in 1 .. Len(encomiendas) :
          \/ encomiendas'[id].estadoActual = encomiendas[id].estadoActual
          \/ encomiendas'[id].estadoActual = Sucesor(encomiendas[id].estadoActual)
     /\ \A p \in Procs :
          RechazoCambiarEstado(p) => UNCHANGED <<encomiendas, eventos>>]_vars

\* seen from one request: what cambiarEstado accepts is the
\* one successor of the status it validated, never RETIRADO, and a refusal writes nothing
ValidacionDeTransicion ==
  [][\A p \in Procs :
       /\ (procs[p].pc = "idle" /\ procs'[p].pc = "ce_tx") =>
            /\ procs'[p].nuevoEstado = Sucesor(procs'[p].estadoObs)
            /\ procs'[p].nuevoEstado # "RETIRADO"
       /\ RechazoCambiarEstado(p) => UNCHANGED <<encomiendas, eventos>>]_vars

(* ------------------- claims on the events of a shipment ---------------- *)
\* C14: every committed transition appends, in the step that changes the
\* status, exactly one event whose estadoDestino is the new status; so in every
\* state the events of a shipment carry each status it has held exactly once,
\* and the status of the shipment is the estadoDestino of its latest event.
C14_UnEventoPorEstado ==
  \A id \in 1 .. Len(encomiendas) :
    LET es == EstadosDeEventos(eventos, id)
    IN /\ Len(es) > 0
       /\ es[Len(es)] = encomiendas[id].estadoActual
       /\ \A i, j \in 1 .. Len(es) : es[i] = es[j] => i = j

\* the part of C14 that holds: the latest event names the current status
C14_UltimoEventoEsEstado ==
  \A id \in 1 .. Len(encomiendas) :
    LET es == EstadosDeEventos(eventos, id)
    IN Len(es) > 0 /\ es[Len(es)] = encomiendas[id].estadoActual

(* -------------------- claims on the optimistic check ------------------- *)
\* the status the request p saw in its validating read
EstadoValidado(r) == IF r.op = "retirar" THEN "LLEGO_A_DESTINO" ELSE r.estadoObs

\* C15: when the status of the shipment has been changed by a commit between
\* the validating read of a request and the re-read inside its transaction,
\* the request is answered 409 and writes neither the status nor an event.
C15_ConflictoDa409 ==
  [][\A p \in Procs :
       (/\ procs[p].pc \in {"ce_tx", "rt_tx"}
        /\ procs'[p] # procs[p]
        /\ encomiendas[procs[p].idEnc].estadoActual # EstadoValidado(procs[p]))
         => /\ Rechaza(p, 409)
            /\ procs'[p].error = "ESTADO_MODIFICADO_CONCURRENTEMENTE"
            /\ UNCHANGED <<encomiendas, eventos>>]_vars

\* a request has been answered 409 after another one committed a transition
\* behind its validating read
C15_Testigo ==
  \E p \in Procs :
    /\ procs[p].pc = "done"
    /\ procs[p].status = 409
    /\ procs[p].error = "ESTADO_MODIFICADO_CONCURRENTEMENTE"
    /\ EventosDe(procs[p].idEnc) = procs[p].eventosObs + 1

(* ---------------------- claims on the price of a sale ------------------ *)
\* the sale documents written so far, tickets and shipments alike
Documentos == Rango(tickets) \cup Rango(encomiendas)

\* the request p commits its sale document in this step
Confirma(p) ==
  /\ procs'[p] # procs[p]
  /\ \/ procs[p].pc = "v_ticket" /\ Len(tickets') = Len(tickets) + 1
     \/ procs[p].pc = "rg_crear" /\ Len(encomiendas') = Len(encomiendas) + 1

\* the document that p commits in this step
DocumentoDe(p) ==
  IF procs[p].pc = "v_ticket" THEN tickets'[Len(tickets')] ELSE encomiendas'[Len(encomiendas')]

\* d cents is min(puntos / ratio, precio) rounded half up to the cent
EsDescuentoDe(d, puntos, ratio, precio) ==
  IF puntos * 10000 >= precio * ratio
  THEN d = precio
  ELSE /\ 2 * (d * ratio - puntos * 10000) <= ratio
       /\ 2 * (puntos * 10000 - d * ratio) < ratio

\* C16: a document sold without manual price has 0 <= precioFinal <=
\* precioOriginal, its discount is min(points redeemed / puntosPorSolDescuento,
\* precioOriginal) rounded to the cent, and precioFinal = max(0, precioOriginal
\* - discount), whatever the price, balance, requested redemption and ratio.
C16_PrecioFinalAcotado ==
  [][\A p \in Procs :
       (Confirma(p) /\ ~procs[p].precioManual.presente) =>
         LET t == DocumentoDe(p)
         IN /\ 0 <= t.precioFinal
            /\ t.precioFinal <= t.precioOriginal
            /\ EsDescuentoDe(t.descuento, t.usados, procs[p].puntosPorSolDescuento,
                             t.precioOriginal)
            /\ t.precioFinal = Max(0, t.precioOriginal - t.descuento)]_vars

\* a sale whose discount was capped at the price
C16_TestigoTope ==
  \E t \in Documentos :
    t.precioOriginal > 0 /\ t.descuento = t.precioOriginal /\ t.precioFinal = 0 /\ t.usados = 3000

\* a sale whose discount was rounded up to the cent (50 points at 3 points
\* per sol: 16.67)
C16_TestigoRedondeo == \E t \in Documentos : t.usados = 50 /\ t.descuento = 1667

\* the request p commits in this step the sale of the scenario: a ticket of
\* 100 soles to a customer holding 50 points who redeems 50, at 10 soles per
\* point and 10 points per sol of discount, without manual price
VentaDelEscenario(p) ==
  /\ Confirma(p)
  /\ procs[p].op = "vender"
  /\ procs[p].pasExiste /\ procs[p].dispLeido = 50
  /\ procs[p].entrada = Entrada(50)
  /\ procs[p].precioOriginal = 10000
  /\ procs[p].puntosPorSolDescuento = PuntosPorSolDescuentoDefault
  /\ ~procs[p].precioManual.presente

\* C17 (as stated): the sale of the scenario stores a discount of 5.00 and a
\* final price of 95.00, earns floor(95 / 10) = 9 points, and leaves the
\* customer with 9 points available.
C17_GanaSobrePrecioFinal ==
  [][\A p \in Procs :
       VentaDelEscenario(p) =>
         LET t == DocumentoDe(p)
         IN /\ t.descuento = 500 /\ t.precioFinal = 9500
            /\ t.ganados = 9
            /\ pasajeros'[procs[p].doc].disp = 9]_vars

\* C17 (amended): the sale of the scenario stores a discount of 5.00 and a
\* final price of 95.00, earns floor(100 / 10) = 10 points, on the original
\* price, and leaves the customer with 50 - 50 + 10 = 10 points available.
C17_GanaSobrePrecioOriginal ==
  [][\A p \in Procs :
       VentaDelEscenario(p) =>
         LET t == DocumentoDe(p)
         IN /\ t.descuento = 500 /\ t.precioFinal = 9500
            /\ t.usados = 50
            /\ t.ganados = 10
            /\ pasajeros'[procs[p].doc].disp = 10]_vars

\* the sale of the scenario has been committed
C17_Testigo ==
  /\ pasajeros[1].disp = 10 /\ pasajeros[1].hist = 60
  /\ \E t \in Rango(tickets) :
       /\ t.doc = 1 /\ t.precioOriginal = 10000 /\ t.usados = 50
       /\ t.descuento = 500 /\ t.precioFinal = 9500 /\ t.ganados = 10

(* -------------------- claims on the loyalty account -------------------- *)
\* C18: the commit of a sale or registration of an existing customer moves the
\* account by what the document stores: the points earned are
\* floor(precioOriginal / solesPorPunto), the new available balance is the old
\* one plus the points earned minus the points redeemed, and the new historic
\* total is the old one plus the points earned.
C18_CuentaSigueAlDocumento ==
  [][\A p \in Procs :
       (Confirma(p) /\ procs[p].pasExiste) =>
         LET t == DocumentoDe(p)
             d == procs[p].doc
         IN /\ t.ganados = t.precioOriginal \div SolesPorPuntoDefault
            /\ pasajeros'[d].disp = pasajeros[d].disp + t.ganados - t.usados
            /\ pasajeros'[d].hist = pasajeros[d].hist + t.ganados]_vars

\* C19: a sale or registration for a document without account creates the
\* account in its own commit with available = historic = points earned and
\* redeems nothing, whatever was requested; of two first purchases for the
\* same document in flight together only one creates the account: the create
\* of the other fails and that request writes nothing.
C19_PrimeraCompraCreaLaCuenta ==
  [][\A p \in Procs :
       /\ (Confirma(p) /\ ~procs[p].pasExiste) =>
            LET t == DocumentoDe(p)
                d == procs[p].doc
            IN /\ ~pasajeros[d].existe
               /\ pasajeros'[d] = [existe |-> TRUE, disp |-> t.ganados, hist |-> t.ganados]
               /\ t.usados = 0 /\ t.descuento = 0
       /\ (/\ procs[p].pc \in {"v_paswrite", "rg_paswrite"}
           /\ procs'[p] # procs[p]
           /\ ~procs[p].pasExiste
           /\ pasajeros[procs[p].doc].existe)
            => /\ Rechaza(p, 500)
               /\ procs'[p].error = "PASAJERO_DUPLICADO"
               /\ UNCHANGED <<pasajeros, tickets, encomiendas>>]_vars

\* two first purchases for document 2 have run together: one created the
\* account with the points it earned, the other was refused
C19_Testigo ==
  /\ pasajeros[2] = [existe |-> TRUE, disp |-> 2, hist |-> 2]
  /\ \E p \in Procs : procs[p].pc = "done" /\ procs[p].error = "PASAJERO_DUPLICADO"
  /\ Cardinality({t \in Documentos : t.doc = 2}) = 1

(* ----------------------- claims on the manual price -------------------- *)
\* c cents is m thousandths of a sol rounded to the cent and floored at zero
EsManualRedondeado(c, m) ==
  IF m <= 0 THEN c = 0
  ELSE 10 * c - m <= 5 /\ m - 10 * c < 5

\* C20: a sale with a manual price stores as precioFinal the manual price
\* rounded to the cent and floored at zero, while the points earned, the
\* points redeemed, the stored discount and the update of the account are
\* those of the same sale without manual price.
C20_ManualSoloCambiaPrecioFinal ==
  [][\A p \in Procs :
       (Confirma(p) /\ procs[p].precioManual.presente) =>
         LET t == DocumentoDe(p)
             d == procs[p].doc
             pedidos == IF procs[p].entrada.esNumero /\ procs[p].entrada.valor > 0
                        THEN procs[p].entrada.valor ELSE 0
             canje == IF pasajeros[d].existe THEN Min(pedidos, pasajeros[d].disp) ELSE 0
             ganados == t.precioOriginal \div SolesPorPuntoDefault
         IN /\ EsManualRedondeado(t.precioFinal, procs[p].precioManual.milesimas)
            /\ t.ganados = ganados
            /\ t.usados = canje
            /\ EsDescuentoDe(t.descuento, canje, procs[p].puntosPorSolDescuento,
                             t.precioOriginal)
            /\ pasajeros'[d] =
                 IF pasajeros[d].existe
                 THEN [existe |-> TRUE, disp |-> pasajeros[d].disp + ganados - canje,
                       hist |-> pasajeros[d].hist + ganados]
                 ELSE [existe |-> TRUE, disp |-> ganados, hist |-> ganados]]_vars

\* a ticket of 100 soles sold at a manual price of 150 soles while 50 points
\* were redeemed for a stored discount of 5 soles
C20_Testigo ==
  \E t \in Rango(tickets) :
    /\ t.precioOriginal = 10000 /\ t.precioFinal = 15000
    /\ t.usados = 50 /\ t.descuento = 500 /\ t.ganados = 10
    /\ pasajeros[t.doc].disp = 10

\* a ticket sold at a manual price below zero, stored as zero
C20_TestigoPiso ==
  \E t \in Rango(tickets) : t.precioFinal = 0 /\ t.descuento = 0 /\ t.precioOriginal = 500

(* ------------------- claims on the document counters ------------------- *)
\* the request p is handed a number of the series s in this step
RecibeNumero(p, s) ==
  /\ procs[p].pc \in {"em_numero", "em_nota_numero"}
  /\ procs'[p] # procs[p]
  /\ (IF procs[p].pc = "em_nota_numero" THEN "NV01" ELSE procs[p].serie) = s
  /\ series[s] >= 0

\* the numbers of the series s handed out so far that are still on record: on
\* a stored document, or held by a request on its way to store one
NumerosEntregados(s) ==
  {c.numero : c \in {x \in Rango(comprobantes) : x.serie = s}}
    \cup {n.numero : n \in {x \in Rango(notasVenta) : x.serie = s}}
    \cup {procs[q].numero : q \in {x \in Procs :
            /\ procs[x].pc \in {"em_enviar", "em_vincular", "em_nota"}
            /\ (IF procs[x].pc = "em_nota" THEN "NV01" ELSE procs[x].serie) = s}}

PideNumeroSinSerie(p) ==
  /\ procs[p].pc \in {"em_numero", "em_nota_numero"}
  /\ procs'[p] # procs[p]
  /\ series[IF procs[p].pc = "em_nota_numero" THEN "NV01" ELSE procs[p].serie] < 0

ClavesDistintas(filas, Clave(_)) ==
  \A i, j \in 1 .. Len(filas) : i # j => Clave(filas[i]) # Clave(filas[j])

ClaveComprobante(c) == <<c.tipo, c.serie, c.numero>>
ClaveSerieNumero(d) == <<d.serie, d.numero>>

ErroresDeIndice == {"COMPROBANTE_DUPLICADO", "NOTA_DUPLICADA", "GUIA_DUPLICADA"}

\* C23: no two invoices or receipts share type, series and number, no two sale
\* notes share series and number, no two guides share series and number,
\* whatever the gateway answered and however the emissions interleave; the
\* numbers handed out never collide, so no emission is refused by a unique index.
C23_SerieYNumeroUnicos ==
  /\ ClavesDistintas(comprobantes, ClaveComprobante)
  /\ ClavesDistintas(notasVenta, ClaveSerieNumero)
  /\ ClavesDistintas(guias, ClaveSerieNumero)
  /\ \A p \in Procs : procs[p].error \notin ErroresDeIndice

\* two documents of each kind are stored, one invoice accepted and one rejected by
\* the gateway
C23_Testigo ==
  /\ Len(comprobantes) = 2
  /\ {c.estado : c \in Rango(comprobantes)} = {"ACEPTADO", "RECHAZADO"}
  /\ Len(notasVenta) = 2
  /\ Len(guias) = 2
  /\ {g.estado : g \in Rango(guias)} = {"ACEPTADA", "RECHAZADA"}

(* ----------------------- claims on voiding ------------------------------ *)
\* everything stored in the database
datos == <<pasajeros, viajes, tickets, encomiendas, eventos, series, comprobantes,
           notasVenta, guias>>

\* the request p, a void of kind op, is received in this step
RecibeAnulacion(p, op) ==
  /\ procs[p].pc = "idle"
  /\ procs'[p].pc # "idle"
  /\ procs'[p].op = op

\* C24: the void of an invoice or of a guide that is not voided yet writes the
\* voided state locally and answers 200, whether the gateway accepted the void,
\* refused it or could not be reached; the void of a document that is already
\* voided is refused with an error and changes nothing.
C24_AnulacionLocalSiempre ==
  [][\A p \in Procs :
       /\ (procs[p].pc = "ac_update" /\ procs'[p] # procs[p])
            => comprobantes'[procs[p].idComp].estado = "ANULADO"
       /\ (procs[p].pc = "ac_limpiar" /\ procs'[p] # procs[p])
            => procs'[p].pc = "done" /\ procs'[p].status = 200
       /\ (procs[p].pc = "ag_update" /\ procs'[p] # procs[p])
            => /\ guias'[procs[p].idGuia].estado = "ANULADA"
               /\ procs'[p].pc = "done" /\ procs'[p].status = 200
       /\ (/\ RecibeAnulacion(p, "anularComprobante")
           /\ procs'[p].idComp \in 1 .. Len(comprobantes)
           /\ comprobantes[procs'[p].idComp].estado # "ANULADO")
            => procs'[p].pc \in {"ac_gateway", "ac_update"}
       /\ (/\ RecibeAnulacion(p, "anularGuia")
           /\ procs'[p].idGuia \in 1 .. Len(guias)
           /\ guias[procs'[p].idGuia].estado # "ANULADA")
            => procs'[p].pc \in {"ag_gateway", "ag_update"}
       /\ (/\ RecibeAnulacion(p, "anularComprobante")
           /\ procs'[p].idComp \in 1 .. Len(comprobantes)
           /\ comprobantes[procs'[p].idComp].estado = "ANULADO")
            => /\ procs'[p].pc = "done" /\ procs'[p].status = 500
               /\ procs'[p].error = "YA_ANULADO"
               /\ UNCHANGED datos
       /\ (/\ RecibeAnulacion(p, "anularGuia")
           /\ procs'[p].idGuia \in 1 .. Len(guias)
           /\ guias[procs'[p].idGuia].estado = "ANULADA")
            => /\ procs'[p].pc = "done" /\ procs'[p].status = 500
               /\ procs'[p].error = "YA_ANULADA"
               /\ UNCHANGED datos]_vars

\* an invoice the gateway had accepted is voided although the gateway could not
\* be reached for the void, and a second void of it has been refused
C24_Testigo ==
  \E p, q \in Procs :
    /\ procs[p].op = "anularComprobante" /\ procs[p].pc = "done" /\ procs[p].status = 200
    /\ procs[p].conKeyfacil /\ procs[p].gateway = "INALCANZABLE"
    /\ comprobantes[procs[p].idComp].estado = "ANULADO"
    /\ procs[q].op = "anularComprobante" /\ procs[q].error = "YA_ANULADO"
    /\ procs[q].idComp = procs[p].idComp

\* the same for a guide whose void the gateway refused
C24_TestigoGuia ==
  \E p, q \in Procs :
    /\ procs[p].op = "anularGuia" /\ procs[p].pc = "done" /\ procs[p].status = 200
    /\ procs[p].conKeyfacil /\ procs[p].gateway = "RECHAZO"
    /\ guias[procs[p].idGuia].estado = "ANULADA"
    /\ procs[q].op = "anularGuia" /\ procs[q].error = "YA_ANULADA"

(* ------------- claims on the codes of tickets and shipments ------------ *)
\* the k of the i-th stored code: how many codes of its day are stored up to it
OrdenEnElDia(codigos, i) ==
  Cardinality({j \in 1 .. i : codigos[j].fecha = codigos[i].fecha})

\* every stored code is PREFIX-day-NNNNN with NNNNN its order in its day, on 5 digits
CodigosEnOrden(codigos, prefijo) ==
  \A i \in 1 .. Len(codigos) :
    /\ codigos[i].pre = prefijo
    /\ Len(codigos[i].sec) = AnchoSecuencial
    /\ ParseInt(codigos[i].sec) = OrdenEnElDia(codigos, i)
    /\ codigos[i] = Codigo(prefijo, codigos[i].fecha, OrdenEnElDia(codigos, i))

CodigosDeTickets == [i \in 1 .. Len(tickets) |-> tickets[i].codigo]
CodigosDeEncomiendas == [i \in 1 .. Len(encomiendas) |-> encomiendas[i].codigo]

\* C25: with requests served one at a time, the k-th ticket of a day carries
\* TKT-day-k and the k-th shipment of a day ENC-day-k, k written on 5 digits with
\* leading zeros: the first of a day is 00001 and each next one is the highest
\* stored of that day plus one; tickets and shipments count apart, and each
\* count starts again at 1 on a new day.
C25_CodigosSecuenciales ==
  /\ CodigosEnOrden(CodigosDeTickets, "TKT")
  /\ CodigosEnOrden(CodigosDeEncomiendas, "ENC")

\* two tickets and one shipment of day 1, then a ticket and a shipment of day 2
\* that start again at 00001
C25_Testigo ==
  /\ Len(tickets) = 3 /\ Len(encomiendas) = 2
  /\ tickets[2].codigo = Codigo("TKT", 1, 2)
  /\ tickets[3].codigo = Codigo("TKT", 2, 1)
  /\ encomiendas[1].codigo = Codigo("ENC", 1, 1)
  /\ encomiendas[2].codigo = Codigo("ENC", 2, 1)

(* ----------------------- claims on the collection ----------------------- *)
\* C26: a shipment becomes RETIRADO only by the write of a retirar request, after
\* it has been LLEGO_A_DESTINO, together with a RETIRADO event that carries the photo and the
\* document of the collector, and, when the shipment has a security code, on a
\* request that gave that code; a cambiarEstado request for RETIRADO is refused
\* whatever the status of the shipment and whoever the actor, and changes nothing.
C26_SoloRetirarRetira ==
  [][/\ \A id \in 1 .. Len(encomiendas) :
          (encomiendas'[id].estadoActual = "RETIRADO" /\ encomiendas[id].estadoActual # "RETIRADO")
            => /\ \E i \in 1 .. Len(eventos) :
                    eventos[i].idEnc = id /\ eventos[i].estadoDestino = "LLEGO_A_DESTINO"
               /\ Len(eventos') = Len(eventos) + 1
               /\ eventos'[Len(eventos')].idEnc = id
               /\ eventos'[Len(eventos')].estadoDestino = "RETIRADO"
               /\ eventos'[Len(eventos')].foto
               /\ eventos'[Len(eventos')].dniRetiro
               /\ \E p \in Procs :
                    /\ procs[p].op = "retirar" /\ procs[p].pc = "rt_escribir"
                    /\ procs'[p] # procs[p]
                    /\ procs[p].idEnc = id
                    /\ encomiendas[id].clave # 0 => procs[p].claveIngresada = encomiendas[id].clave
     /\ \A p \in Procs :
          (Recibe(p, "cambiarEstado") /\ procs'[p].nuevoEstado = "RETIRADO")
            => /\ procs'[p].pc = "done"
               /\ procs'[p].status \in {400, 403}
               /\ UNCHANGED datos]_vars

\* the shipment, which carries a security code, has been collected, and a
\* cambiarEstado to RETIRADO by an actor without point was refused while it was
\* at its destination
C26_Testigo ==
  /\ encomiendas[1].estadoActual = "RETIRADO"
  /\ encomiendas[1].clave # 0
  /\ \E p \in Procs : procs[p].op = "retirar" /\ procs[p].status = 200
  /\ \E i \in 1 .. Len(eventos) : eventos[i].estadoDestino = "RETIRADO" /\ eventos[i].foto

\* a cambiarEstado to RETIRADO on a shipment at its destination, by an actor
\* that may change it, has been refused
C26_TestigoRechazo ==
  /\ encomiendas[1].estadoActual = "LLEGO_A_DESTINO"
  /\ \E p \in Procs :
       /\ procs[p].op = "cambiarEstado" /\ procs[p].nuevoEstado = "RETIRADO"
       /\ procs[p].userPunto = 0
       /\ procs[p].pc = "done" /\ procs[p].status = 400 /\ procs[p].error = "USE_RETIRAR"

(* ------------------- claims on the ledger of points -------------------- *)
RECURSIVE SumaDe(_, _, _)
\* sum of the field campo over the rows of filas that belong to customer d
SumaDe(filas, d, campo) ==
  IF Len(filas) = 0 THEN 0
  ELSE (IF filas[1].doc = d THEN filas[1][campo] ELSE 0) + SumaDe(Tail(filas), d, campo)

GanadosDe(d) == SumaDe(tickets, d, "ganados") + SumaDe(encomiendas, d, "ganados")
UsadosDe(d) == SumaDe(tickets, d, "usados") + SumaDe(encomiendas, d, "usados")

\* what customer d had earned before the first sale of the behaviour
HistoricoInicial(d) == IF d = 1 THEN SaldoInicial ELSE 0

\* C27: for every customer, after any interleaving of sales and registrations,
\* the historic points are the points earned on the customer's documents and the
\* available points are the historic ones less the points redeemed on those
\* documents: no point is lost or counted twice.
C27_LibroDePuntosCuadra ==
  \A d \in Docs :
    /\ pasajeros[d].hist = HistoricoInicial(d) + GanadosDe(d)
    /\ pasajeros[d].disp = pasajeros[d].hist - UsadosDe(d)

(* ------------------- claims on seats and cancellation ------------------ *)
\* the tickets of trip k that are in force
Emitidos(k) == {i \in 1 .. Len(tickets) : tickets[i].viaje = k /\ tickets[i].estado = "EMITIDO"}

\* C28: for every trip, after any interleaving of vender, venderInstantaneo and
\* anular, the tickets in force are no more than the seats of the trip, and
\* the sold count stored on the trip is the number of those tickets.
C28_AforoRespetado ==
  \A k \in ViajeKeys :
    viajes[k].existe =>
      /\ Cardinality(Emitidos(k)) <= viajes[k].capacidadTotal
      /\ viajes[k].capacidadVendida = Cardinality(Emitidos(k))

\* C29: a cancellation is written only on a ticket that is EMITIDO at that
\* moment, moves it to ANULADO and lowers the sold count of its trip by exactly
\* one, never below zero; so a ticket is cancelled once, and a second anular,
\* later or at the same time, is refused and frees no seat.
C29_AnulaUnaSolaVez ==
  [][\A p \in Procs :
       (procs[p].pc = "an_tx" /\ procs'[p] # procs[p])
         => /\ tickets[procs[p].idDoc].estado = "EMITIDO"
            /\ tickets'[procs[p].idDoc].estado = "ANULADO"
            /\ viajes'[procs[p].viajeKey].capacidadVendida
                 = viajes[procs[p].viajeKey].capacidadVendida - 1
            /\ viajes'[procs[p].viajeKey].capacidadVendida >= 0]_vars

(* ------------------- claims on invoices on request --------------------- *)
\* the invoices of an origin that are neither voided nor rejected
Vigentes(origenTipo, origenId) ==
  {i \in 1 .. Len(comprobantes) :
     /\ comprobantes[i].origenTipo = origenTipo
     /\ comprobantes[i].origenId = origenId
     /\ comprobantes[i].estado \notin {"ANULADO", "RECHAZADO"}}

\* C30: a ticket or a shipment has at most one invoice that is neither voided
\* nor rejected, however emitirDesdeTicket, emitirDesdeEncomienda and the voids
\* interleave.
C30_UnComprobanteVigente ==
  /\ \A id \in 1 .. Len(tickets) : Cardinality(Vigentes("TICKET", id)) <= 1
  /\ \A id \in 1 .. Len(encomiendas) : Cardinality(Vigentes("ENCOMIENDA", id)) <= 1

====
